---- MODULE Spec2Model ----
(***************************************************************************)
(* Model of the tabular conversion layer of the pyseg plugin               *)
(* (src/pyseg/convert.py): the star-file splitter, the vesicle-id          *)
(* extraction from sub-tomogram file names, and the star-file reader with  *)
(* its missing-column warning.                                             *)
(***************************************************************************)
EXTENDS Integers, Sequences, FiniteSets, TLC

VARIABLES
    \* ---- splitPysegStarFile -------------------------------------------
    inStar,        \* the input star file: [columns, rows]
    j,             \* group size argument
    tomoTable,     \* rows of the table read from inStar
    labels,        \* tomoTable.getColumnNames()
    outTable,      \* rows currently held by outTable
    outStarFiles,  \* the list of written paths, as returned
    disk,          \* the files written: path -> [columns, rows]
    counter,       \* row counter of the loop
    fileCounter,   \* file counter of the loop
    rowIt,         \* position of the iteration over tomoTable
    splitPc,       \* "start", "loop", "done" or "error"
    \* ---- vesicle id of a sub-tomogram file name -------------------------
    nameParts,     \* the parts the file name is made of
    subtomoName,   \* the file name, a sequence of characters
    vesicleId,     \* result of _getVesicleIdFromSubtomoName, once called
    subtomoGroup,  \* group id set by _relionTomoStar2Subtomograms, once run
    \* ---- readParticlesStarFile ------------------------------------------
    fileType,      \* RELION_SUBTOMO_STAR or PYSEG_PICKING_STAR
    missing,       \* the required labels the star file was written without
    starTable,     \* the table of the star file: [columns, rows]
    tomoSet,       \* prot.tomoSet: the file names of its tomograms
    nInputSubtomos,\* size of prot.inputSubtomos
    outputSet,     \* the output set the converter appends to
    warningMsg,    \* the returned warning
    readPc,        \* "start", "done" (returned) or "raised"
    \* ---- conversion of one row: position and transform -------------------
    trMissing,     \* the numeric labels the row was written without
    trRow,         \* the row: label -> number
    invert,        \* the invert flag
    trCoord,       \* the coordinate built from the row: [x, y, z, M]
    trPc,          \* "start" or "done"
    \* ---- pre-segmentation protocol --------------------------------------
    psMinXY,       \* the minXY parameter
    psMinDepth,    \* the minDepth parameter
    psRecords,     \* rows of the star file the second external run writes
    psLog,         \* the steps finished, in the order they finished
    psState,       \* "running", "finished" or "failed"
    psDisk,        \* the files on disk, by name
    psOut,         \* the output sets, final table, removed count; defined?
    psSummary,     \* what _summary returned, once called
    grInput,       \* the graphs protocol run on the result: its input and the
                   \* star file its _initialize splits, once called
    \* ---- compiler check of the installation ------------------------------
    gccMajor,      \* major version of the installed gcc
    gppMajor,      \* major version of the installed g++
    dumpFull,      \* -dumpversion prints major.minor.patch, not the major alone
    installation,  \* the recipe handed to env.addPackage: [commands, message]
    insPc,         \* "start" or "done"
    \* ---- graphs protocol -------------------------------------------------
    starFileList,     \* self.starFileList: the split star files
    keepOnlyReqFiles, \* the keepOnlyReqFiles parameter
    grSteps,          \* the steps inserted: [func, starFile, prerequisites]
    grStatus,         \* step id -> "new", "running", "finished" or "failed"
    grInvocations,    \* step id -> calls of the external program so far
    grDisk,           \* the files of the extra path, by name
    \* ---- command lines of the external programs ---------------------------
    cmdParams,     \* the protocol and its parameters that carry a length
    cmdArgs,       \* the arguments built from them, once built
    cmdDisk        \* the XML files on disk: path |-> its mb_slice elements

splitVars == <<inStar, j, tomoTable, labels, outTable, outStarFiles, disk,
               counter, fileCounter, rowIt, splitPc>>

vesVars == <<nameParts, subtomoName, vesicleId, subtomoGroup>>

readVars == <<fileType, missing, starTable, tomoSet, nInputSubtomos, outputSet,
              warningMsg, readPc>>

trVars == <<trMissing, trRow, invert, trCoord, trPc>>

psVars == <<psMinXY, psMinDepth, psRecords, psLog, psState, psDisk, psOut, psSummary, grInput>>

insVars == <<gccMajor, gppMajor, dumpFull, installation, insPc>>

grVars == <<starFileList, keepOnlyReqFiles, grSteps, grStatus, grInvocations, grDisk>>

vars == <<splitVars, vesVars, readVars, trVars, psVars, insVars, grVars, cmdParams, cmdArgs, cmdDisk>>

(***************************************************************************)
(* Bounds of the model.                                                    *)
(***************************************************************************)
MaxRows == 5
MaxGroup == 4
MaxIdLen == 2
MaxMissing == 2
MaxReadRows == 2
MaxTomos == 2
MaxRecords == 2
MaxCompilerVer == 14
MaxStarFiles == 3
MaxLength == 4
MaxSlices == 2

(***************************************************************************)
(* Helpers.                                                                *)
(***************************************************************************)
Range(s) == {s[i] : i \in 1..Len(s)}

IndexOf(s, e) == CHOOSE i \in 1..Len(s) : s[i] = e

Max(a, b) == IF a >= b THEN a ELSE b

\* Python's s[a:b] for negative a and b (both counted from the end).
PySliceNeg(s, a, b) == SubSeq(s, Max(Len(s) + a, 0) + 1, Max(Len(s) + b, 0))

(***************************************************************************)
(* Constants of pyseg.constants and of the imported label names.           *)
(***************************************************************************)
NOT_FOUND == "NotFound"
GRAPHS_OUT == "graphs"
TOMO_NAME == "rlnMicrographName"
SUBTOMO_NAME == "rlnImageName"
VESICLE == "psVesicle"
SEGMENTATION == "psSegImage"
COORD_X == "rlnCoordinateX"
COORD_Y == "rlnCoordinateY"
COORD_Z == "rlnCoordinateZ"
ROT == "rlnAngleRot"
TILT == "rlnAngleTilt"
PSI == "rlnAnglePsi"
TILT_PRIOR == "rlnAngleTiltPrior"
PSI_PRIOR == "rlnAnglePsiPrior"
SHIFTX == "rlnOriginX"
SHIFTY == "rlnOriginY"
SHIFTZ == "rlnOriginZ"
CTF_MISSING_WEDGE == "rlnCtfImage"
MAGNIFICATION == "rlnMagnification"
PIXEL_SIZE == "rlnDetectorPixelSize"

\* The label list of reliontomo.convert.convert30_tomo.
RELION_TOMO_LABELS ==
    <<TOMO_NAME, COORD_X, COORD_Y, COORD_Z, SUBTOMO_NAME, CTF_MISSING_WEDGE,
      MAGNIFICATION, PIXEL_SIZE, ROT, TILT, TILT_PRIOR, PSI, PSI_PRIOR,
      SHIFTX, SHIFTY, SHIFTZ>>

PICKING_LABELS ==
    <<TOMO_NAME, VESICLE, SEGMENTATION, COORD_X, COORD_Y, COORD_Z, ROT, TILT, PSI>>

\* Star files coding
RELION_SUBTOMO_STAR == 0
PYSEG_PICKING_STAR == 1

\* NOT_FOUND as a file name.
NotFoundName == <<"N", "o", "t", "F", "o", "u", "n", "d">>

\* Python's None, as a returned warning.
None == "None"

\* The directory the split files are written to.
OutDir == "inStars"

(***************************************************************************)
(* '%03d' % n : decimal digits, zero-padded on the left to width 3.        *)
(***************************************************************************)
Digit(d) ==
    CASE d = 0 -> "0" [] d = 1 -> "1" [] d = 2 -> "2" [] d = 3 -> "3"
      [] d = 4 -> "4" [] d = 5 -> "5" [] d = 6 -> "6" [] d = 7 -> "7"
      [] d = 8 -> "8" [] d = 9 -> "9"

RECURSIVE Decimal(_)
Decimal(n) == IF n < 10 THEN Digit(n) ELSE Decimal(n \div 10) \o Digit(n % 10)

RECURSIVE ZeroPad(_, _)
ZeroPad(str, width) == IF Len(str) >= width THEN str ELSE ZeroPad("0" \o str, width)

\* Mutant: '%d' instead of '%03d'.
Fmt03d_Unpadded(n) == Decimal(n)

Fmt03d(n) == ZeroPad(Decimal(n), 3)

\* os.path.join(dir, name)
Join(dir, name) == dir \o "/" \o name

\* join(outDir, '%s%03d.star' % (prefix, fileCounter))
OutStarFileName(outDir, prefix, fc) == Join(outDir, prefix \o Fmt03d(fc) \o ".star")

(***************************************************************************)
(* Rows and tables.  A row maps column names to values; row.get(label,     *)
(* default) gives the default for a column the row does not have.          *)
(***************************************************************************)
RowGet(row, label, default) == IF label \in DOMAIN row THEN row[label] ELSE default

\* _addRow: values = [vesicleRow.get(label, NOT_FOUND) for label in labels];
\* outTable.addRow(*values) binds them positionally to outTable's columns.
AddRowValues(vesicleRow, cols) == [k \in 1..Len(cols) |-> RowGet(vesicleRow, cols[k], NOT_FOUND)]

\* Mutant: the first label is skipped when the row is built.
AddRow_SkipsFirstLabel(table, vesicleRow, cols) ==
    LET values == AddRowValues(vesicleRow, cols)
    IN  Append(table, [c \in Range(Tail(cols)) |-> values[IndexOf(cols, c)]])

AddRow(table, vesicleRow, cols) ==
    LET values == AddRowValues(vesicleRow, cols)
    IN  Append(table, [c \in Range(cols) |-> values[IndexOf(cols, c)]])

RECURSIVE AddRows(_, _, _)
AddRows(table, rows, cols) ==
    IF rows = <<>> THEN table
    ELSE AddRows(AddRow(table, Head(rows), cols), Tail(rows), cols)

\* The input tables: n rows over one of the column lists; the value of row i
\* in column c is <<i, c>>.
ColumnLists == {<<TOMO_NAME>>, <<TOMO_NAME, VESICLE, SEGMENTATION>>}

InputRow(i, cols) == [c \in Range(cols) |-> <<i, c>>]

InputTable(n, cols) == [columns |-> cols, rows |-> [i \in 1..n |-> InputRow(i, cols)]]

\* The files of the directory, and a table written to one of them.
NoFiles == <<>>

WriteFile(files, path, cols, rows) == (path :> [columns |-> cols, rows |-> rows]) @@ files

(***************************************************************************)
(* File names as sequences of characters, and the string functions used    *)
(* by the vesicle-id extraction.                                           *)
(***************************************************************************)
splitPattern == <<"_", "s", "p", "l", "i", "t", "_">>
tidPatten == <<"_", "t", "i", "d", "_">>
idPattern == <<"_", "i", "d", "_">>
tidMarker == <<"t", "i", "d", "_">>

Min(a, b) == IF a <= b THEN a ELSE b

\* Python's s[a:b] for 0 <= a, 0 <= b.
PySlice(s, a, b) == SubSeq(s, Min(a, Len(s)) + 1, Min(b, Len(s)))

\* Python's s[a:] for 0 <= a.
PySliceFrom(s, a) == SubSeq(s, Min(a, Len(s)) + 1, Len(s))

\* pattern occurs in s at the 0-based position i.
OccursAt(s, pattern, i) ==
    /\ i + Len(pattern) <= Len(s)
    /\ \A k \in 1..Len(pattern) : s[i + k] = pattern[k]

\* pattern in s
Contains(s, pattern) == \E i \in 0..Len(s) : OccursAt(s, pattern, i)

\* s.find(pattern): the first 0-based position, or -1.
Find(s, pattern) ==
    IF Contains(s, pattern)
    THEN CHOOSE i \in 0..Len(s) :
            /\ OccursAt(s, pattern, i)
            /\ \A m \in 0..(i - 1) : ~OccursAt(s, pattern, m)
    ELSE 0 - 1

\* s.rfind(c) for one character c: the last 0-based position, or -1.
RFindChar(s, c) ==
    IF \E i \in 1..Len(s) : s[i] = c
    THEN (CHOOSE i \in 1..Len(s) : s[i] = c /\ \A m \in (i + 1)..Len(s) : s[m] # c) - 1
    ELSE 0 - 1

\* os.path.basename(p): what follows the last '/'.
Basename(p) == PySliceFrom(p, RFindChar(p, "/") + 1)

\* os.path.splitext(p)[0]: p up to its last '.', when that dot comes after
\* the last '/' and some character other than '.' stands between them.
SplitExtRoot(p) ==
    LET sepIndex == RFindChar(p, "/")
        dotIndex == RFindChar(p, ".")
    IN  IF /\ dotIndex > sepIndex
           /\ \E f \in (sepIndex + 1)..(dotIndex - 1) : p[f + 1] # "."
        THEN PySlice(p, 0, dotIndex)
        ELSE p

\* pyworkflow.utils.removeBaseExt(p) = removeExt(basename(p))
removeBaseExt(p) == SplitExtRoot(Basename(p))

\* Mutant: the extension is kept.
getVesicleIdFromSubtomoName_KeepsExt(name) ==
    LET baseName == Basename(name)
    IN  IF Contains(baseName, splitPattern)
        THEN PySlice(baseName, Find(baseName, idPattern) + Len(idPattern),
                     Find(baseName, splitPattern))
        ELSE PySliceFrom(baseName, Find(baseName, tidPatten) + Len(tidPatten))

\* _getVesicleIdFromSubtomoName(subtomoName)
getVesicleIdFromSubtomoName(name) ==
    LET baseName == removeBaseExt(name)
    IN  IF Contains(baseName, splitPattern)
        THEN PySlice(baseName, Find(baseName, idPattern) + Len(idPattern),
                     Find(baseName, splitPattern))
        ELSE PySliceFrom(baseName, Find(baseName, tidPatten) + Len(tidPatten))

\* subtomoFn.split('tid_')[1]: what stands between the first and the second
\* occurrence of 'tid_' (or the end).
SplitSecondPart(s, sepr) ==
    LET rest == PySliceFrom(s, Find(s, sepr) + Len(sepr))
    IN  IF Contains(rest, sepr) THEN PySlice(rest, 0, Find(rest, sepr)) ELSE rest

\* The group id lines 177-181 of _relionTomoStar2Subtomograms give to the
\* coordinate of a sub-tomogram: whether one is set, which, and whether
\* vesicleId[0] raised IndexError on an empty string.
NoGroupId == [set |-> FALSE, id |-> <<>>, raised |-> FALSE]

SubtomoGroupId(subtomoFn) ==
    IF Contains(subtomoFn, tidMarker)
    THEN LET afterTid == SplitSecondPart(subtomoFn, tidMarker)
         IN  IF afterTid = <<>> THEN [set |-> FALSE, id |-> <<>>, raised |-> TRUE]
             ELSE [set |-> TRUE, id |-> <<afterTid[1]>>, raised |-> FALSE]
    ELSE NoGroupId

(***************************************************************************)
(* splitPysegStarFile(inStar, outDir, j, prefix)                           *)
(***************************************************************************)
SplitStart ==
    /\ \E n \in 0..MaxRows, cols \in ColumnLists : inStar = InputTable(n, cols)
    /\ j \in 1..MaxGroup
    /\ tomoTable = <<>>
    /\ labels = <<>>
    /\ outTable = <<>>
    /\ outStarFiles = <<>>
    /\ disk = NoFiles
    /\ counter = 0
    /\ fileCounter = 0
    /\ rowIt = 0
    /\ splitPc = "start"

\* Lines 58-76: read the table, create the output table, set the counters.
SplitRead ==
    /\ splitPc = "start"
    /\ tomoTable' = inStar.rows
    /\ labels' = inStar.columns
    /\ outTable' = <<>>
    /\ outStarFiles' = <<>>
    /\ counter' = 1
    /\ fileCounter' = 1
    /\ rowIt' = 1
    /\ splitPc' = "loop"
    /\ UNCHANGED <<inStar, j, disk>>

\* The test of line 79.
GroupComplete(c, g) == c > 1 /\ c % g = 0

\* Lines 77-82: one iteration of the loop over the rows.
SplitLoopStep ==
    /\ splitPc = "loop"
    /\ rowIt <= Len(tomoTable)
    /\ LET added == AddRow(outTable, tomoTable[rowIt], labels)
           path == OutStarFileName(OutDir, GRAPHS_OUT \o "_", fileCounter)
       IN  IF GroupComplete(counter, j)
           THEN /\ outStarFiles' = Append(outStarFiles, path)
                /\ disk' = WriteFile(disk, path, labels, added)
                /\ outTable' = <<>>
                /\ fileCounter' = fileCounter + 1
           ELSE /\ outTable' = added
                /\ UNCHANGED <<outStarFiles, disk, fileCounter>>
    /\ counter' = counter + 1
    /\ rowIt' = rowIt + 1
    /\ UNCHANGED <<inStar, j, tomoTable, labels, splitPc>>

\* The rows line 86 iterates over: tomoTable[-rem:-1].
RemainderRows(table, rem) == PySliceNeg(table, 0 - rem, 0 - 1)

\* Mutant: the remainder file is written for a zero remainder too.
HasRemainder_NonNegative(rem) == rem >= 0

\* The test of line 85.
HasRemainder(rem) == rem > 0

\* Lines 84-90: the remainder and the return.
SplitRemainder ==
    /\ splitPc = "loop"
    /\ rowIt > Len(tomoTable)
    /\ LET nVesicles == Len(tomoTable)
           rem == nVesicles % j
           added == AddRows(outTable, RemainderRows(tomoTable, rem), labels)
           path == OutStarFileName(OutDir, GRAPHS_OUT \o "_", fileCounter)
       IN  IF HasRemainder(rem)
           THEN /\ outStarFiles' = Append(outStarFiles, path)
                /\ disk' = WriteFile(disk, path, labels, added)
                /\ outTable' = <<>>
           ELSE UNCHANGED <<outStarFiles, disk, outTable>>
    /\ splitPc' = "done"
    /\ UNCHANGED <<inStar, j, tomoTable, labels, counter, fileCounter, rowIt>>

\* The splitter has nothing to do.
SplitIdle ==
    /\ inStar = InputTable(0, <<TOMO_NAME>>)
    /\ j = 1
    /\ tomoTable = <<>>
    /\ labels = <<>>
    /\ outTable = <<>>
    /\ outStarFiles = <<>>
    /\ disk = NoFiles
    /\ counter = 0
    /\ fileCounter = 0
    /\ rowIt = 0
    /\ splitPc = "idle"

(***************************************************************************)
(* The vesicle id of a sub-tomogram file name, as the two converters       *)
(* derive it.  The names are those PySeg writes:                           *)
(* <dir><prefix>_tid_<id><ext> and <dir><prefix>_id_<id>_split_<n><ext>.   *)
(***************************************************************************)
NameDirs == {<<>>, <<"d", "/">>, <<"s", "_", "s", "p", "l", "i", "t", "_", "1", "/">>}
NamePrefixes == {<<"a">>, <<"t", "o", "m", "o", "_", "7">>}
IdChars == {"2", "3"}
NameIds == UNION {[1..k -> IdChars] : k \in 1..MaxIdLen}
NameExts == {<<".", "m", "r", "c">>, <<".", "e", "m">>}
NameKinds == {"tid", "split"}

NamePartsSet == [dir : NameDirs, prefix : NamePrefixes, kind : NameKinds,
                 id : NameIds, ext : NameExts]

BuildName(parts) ==
    IF parts.kind = "tid"
    THEN parts.dir \o parts.prefix \o tidPatten \o parts.id \o parts.ext
    ELSE parts.dir \o parts.prefix \o idPattern \o parts.id \o splitPattern
            \o <<"4">> \o parts.ext

NotCalled == [done |-> FALSE, value |-> <<>>]

VesStart ==
    /\ nameParts \in NamePartsSet
    /\ subtomoName = BuildName(nameParts)
    /\ vesicleId = NotCalled
    /\ subtomoGroup = [done |-> FALSE, value |-> NoGroupId]

VesIdle ==
    /\ nameParts = [dir |-> <<>>, prefix |-> <<>>, kind |-> "none", id |-> <<>>, ext |-> <<>>]
    /\ subtomoName = <<>>
    /\ vesicleId = NotCalled
    /\ subtomoGroup = [done |-> FALSE, value |-> NoGroupId]

\* Line 269: the 3-D coordinate converter asks for the vesicle id of the name.
GetVesicleId ==
    /\ subtomoName # <<>>
    /\ ~vesicleId.done
    /\ vesicleId' = [done |-> TRUE, value |-> getVesicleIdFromSubtomoName(subtomoName)]
    /\ UNCHANGED <<nameParts, subtomoName, subtomoGroup, splitVars, readVars, trVars, psVars, insVars, grVars, cmdParams, cmdArgs, cmdDisk>>

\* Lines 175-182: the sub-tomogram converter sets the group id from the name.
SetSubtomoGroupId ==
    /\ subtomoName # <<>>
    /\ ~subtomoGroup.done
    /\ subtomoGroup' = [done |-> TRUE, value |-> SubtomoGroupId(subtomoName)]
    /\ UNCHANGED <<nameParts, subtomoName, vesicleId, splitVars, readVars, trVars, psVars, insVars, grVars, cmdParams, cmdArgs, cmdDisk>>

(***************************************************************************)
(* readParticlesStarFile and the two converters it calls.                  *)
(***************************************************************************)
\* [name for name in labels if name not in tomoTable.getColumnNames()]
MissingCols(required, columns) == SelectSeq(required, LAMBDA name : name \notin Range(columns))

\* tomoTable.hasAllColumns(labels)
HasAllColumns(columns, required) == \A name \in Range(required) : name \in Range(columns)

RECURSIVE JoinStrings(_, _)
JoinStrings(strs, sepr) ==
    IF Len(strs) = 0 THEN ""
    ELSE IF Len(strs) = 1 THEN strs[1]
    ELSE strs[1] \o sepr \o JoinStrings(Tail(strs), sepr)

\* Mutant: every required label is listed, present or not.
WarningFor_ListsAllLabels(required, columns) ==
    IF ~HasAllColumns(columns, required)
    THEN "Columns "
         \o JoinStrings([k \in 1..Len(required) |-> "*" \o required[k] \o "*"], "  ")
         \o "\nwere not found in the star file provided.\nThe corresponding numerical "
         \o "values will be considered as 0."
    ELSE None

\* Lines 94, 105-109: the warning for a table with these columns.
WarningFor(required, columns) ==
    IF ~HasAllColumns(columns, required)
    THEN LET missingCols == MissingCols(required, columns)
         IN  "Columns "
             \o JoinStrings([k \in 1..Len(missingCols) |-> "*" \o missingCols[k] \o "*"], "  ")
             \o "\nwere not found in the star file provided.\nThe corresponding numerical "
             \o "values will be considered as 0."
    ELSE None

\* Mutant: the volume id counts the tomograms from 1.
Coordinate3DOf_OneBasedVolId(row, tomoNum, tomo) ==
    [volId |-> tomoNum + 1,
     volume |-> tomo,
     x |-> RowGet(row, COORD_X, 0),
     y |-> RowGet(row, COORD_Y, 0),
     z |-> RowGet(row, COORD_Z, 0),
     groupId |-> getVesicleIdFromSubtomoName(RowGet(row, SUBTOMO_NAME, NotFoundName))]

\* Lines 258-269: the coordinate of a row that belongs to tomogram tomoNum.
Coordinate3DOf(row, tomoNum, tomo) ==
    [volId |-> tomoNum,
     volume |-> tomo,
     x |-> RowGet(row, COORD_X, 0),
     y |-> RowGet(row, COORD_Y, 0),
     z |-> RowGet(row, COORD_Z, 0),
     groupId |-> getVesicleIdFromSubtomoName(RowGet(row, SUBTOMO_NAME, NotFoundName))]

\* Lines 255-272: the rows of the table against one tomogram, from row k on.
\* row.get(TOMO_NAME) is None for a row without that column, and
\* basename(None) raises TypeError.
RECURSIVE CoordsOfTomo(_, _, _, _, _)
CoordsOfTomo(rows, k, tomoNum, tomo, acc) ==
    IF k > Len(rows) THEN [out |-> acc, raised |-> FALSE]
    ELSE IF TOMO_NAME \notin DOMAIN rows[k] THEN [out |-> acc, raised |-> TRUE]
    ELSE IF Basename(rows[k][TOMO_NAME]) = Basename(tomo)
         THEN CoordsOfTomo(rows, k + 1, tomoNum, tomo,
                           Append(acc, Coordinate3DOf(rows[k], tomoNum, tomo)))
         ELSE CoordsOfTomo(rows, k + 1, tomoNum, tomo, acc)

\* _pysegStar2Coords3D: lines 253-272, from the tomogram at position t on
\* (enumerate counts from 0).
RECURSIVE pysegStar2Coords3D(_, _, _, _)
pysegStar2Coords3D(tomos, rows, t, acc) ==
    IF t > Len(tomos) THEN [out |-> acc, raised |-> FALSE]
    ELSE LET r == CoordsOfTomo(rows, 1, t - 1, tomos[t], acc)
         IN  IF r.raised THEN r ELSE pysegStar2Coords3D(tomos, rows, t + 1, r.out)

\* Lines 134-182: the sub-tomogram of a row.  The image handler is an
\* external collaborator: it is taken to give dimensions for every name.
SubTomogramOf(row) ==
    [volName |-> RowGet(row, TOMO_NAME, NotFoundName),
     fileName |-> RowGet(row, SUBTOMO_NAME, NotFoundName),
     x |-> RowGet(row, COORD_X, 0),
     y |-> RowGet(row, COORD_Y, 0),
     z |-> RowGet(row, COORD_Z, 0),
     group |-> SubtomoGroupId(RowGet(row, SUBTOMO_NAME, NotFoundName))]

\* _relionTomoStar2Subtomograms: lines 133-185 over zip(tomoTable,
\* inputSubtomos), from pair k on.
RECURSIVE relionTomoStar2Subtomograms(_, _, _, _)
relionTomoStar2Subtomograms(rows, nSubtomos, k, acc) ==
    IF k > Min(Len(rows), nSubtomos) THEN [out |-> acc, raised |-> FALSE]
    ELSE LET subtomo == SubTomogramOf(rows[k])
         IN  IF subtomo.group.raised THEN [out |-> acc, raised |-> TRUE]
             ELSE relionTomoStar2Subtomograms(rows, nSubtomos, k + 1, Append(acc, subtomo))

\* The star files read: the required labels of the file type without up to
\* MaxMissing of them, and up to MaxReadRows rows.
RequiredLabels(ft) == IF ft = RELION_SUBTOMO_STAR THEN RELION_TOMO_LABELS ELSE PICKING_LABELS

RowTomoNames == {<<"x", "/", "t", "1">>, <<"x", "/", "t", "2">>}
TomoFiles == {<<"a", "/", "t", "1">>, <<"b", "/", "t", "1">>, <<"a", "/", "t", "2">>}
RowSubtomoName == <<"a", "_", "t", "i", "d", "_", "3", ".", "m", "r", "c">>

TomoSets == {ts \in UNION {[1..k -> TomoFiles] : k \in 0..MaxTomos} :
                \A a, b \in 1..Len(ts) : a # b => ts[a] # ts[b]}

StarRow(i, tomoName, cols) ==
    [c \in Range(cols) |->
        IF c \in {TOMO_NAME, CTF_MISSING_WEDGE} THEN tomoName
        ELSE IF c \in {SUBTOMO_NAME, VESICLE, SEGMENTATION} THEN RowSubtomoName
        ELSE i]

StarTables(required, miss) ==
    LET cols == SelectSeq(required, LAMBDA name : name \notin miss)
    IN  {[columns |-> cols, rows |-> [i \in 1..Len(names) |-> StarRow(i, names[i], cols)]] :
            names \in UNION {[1..k -> RowTomoNames] : k \in 0..MaxReadRows}}

ReadStart ==
    /\ fileType \in {RELION_SUBTOMO_STAR, PYSEG_PICKING_STAR}
    /\ missing \in {m \in SUBSET Range(RequiredLabels(fileType)) : Cardinality(m) <= MaxMissing}
    /\ starTable \in StarTables(RequiredLabels(fileType), missing)
    /\ IF fileType = RELION_SUBTOMO_STAR
       THEN tomoSet = <<>> /\ nInputSubtomos \in 0..MaxReadRows
       ELSE tomoSet \in TomoSets /\ nInputSubtomos = 0
    /\ outputSet = <<>>
    /\ warningMsg = None
    /\ readPc = "start"

ReadIdle ==
    /\ fileType = PYSEG_PICKING_STAR
    /\ missing = {}
    /\ starTable = [columns |-> <<>>, rows |-> <<>>]
    /\ tomoSet = <<>>
    /\ nInputSubtomos = 0
    /\ outputSet = <<>>
    /\ warningMsg = None
    /\ readPc = "idle"

\* readParticlesStarFile(prot, outputSetObject, fileType, starFile)
ReadParticlesStarFile ==
    /\ readPc = "start"
    /\ LET required == RequiredLabels(fileType)
           converted == IF fileType = RELION_SUBTOMO_STAR
                        THEN relionTomoStar2Subtomograms(starTable.rows, nInputSubtomos, 1, outputSet)
                        ELSE pysegStar2Coords3D(tomoSet, starTable.rows, 1, outputSet)
       IN  /\ outputSet' = converted.out
           /\ IF converted.raised
              THEN /\ readPc' = "raised"
                   /\ UNCHANGED warningMsg
              ELSE /\ readPc' = "done"
                   /\ warningMsg' = WarningFor(required, starTable.columns)
    /\ UNCHANGED <<fileType, missing, starTable, tomoSet, nInputSubtomos>>

(***************************************************************************)
(* 4x4 matrices over the integers.  The angles of the model are multiples  *)
(* of 90 degrees, for which sine and cosine are integers.                  *)
(***************************************************************************)
Identity4 == <<<<1, 0, 0, 0>>, <<0, 1, 0, 0>>, <<0, 0, 1, 0>>, <<0, 0, 0, 1>>>>

Sin(deg) == CASE deg % 360 = 0 -> 0 [] deg % 360 = 90 -> 1
              [] deg % 360 = 180 -> 0 [] deg % 360 = 270 -> 0 - 1

Cos(deg) == CASE deg % 360 = 0 -> 1 [] deg % 360 = 90 -> 0
              [] deg % 360 = 180 -> 0 - 1 [] deg % 360 = 270 -> 0

MatMul(A, B) ==
    [r \in 1..4 |-> [c \in 1..4 |->
        A[r][1] * B[1][c] + A[r][2] * B[2][c] + A[r][3] * B[3][c] + A[r][4] * B[4][c]]]

\* np.linalg.inv(M): the adjugate over the determinant.  Minor(r, c) is the
\* determinant of the 3x3 matrix left when row r and column c are removed.
MatInv(M) ==
    LET Without(r) == SelectSeq(<<1, 2, 3, 4>>, LAMBDA x : x # r)
        Minor(r, c) ==
            LET rs == Without(r)
                cs == Without(c)
            IN    M[rs[1]][cs[1]] * (M[rs[2]][cs[2]] * M[rs[3]][cs[3]] - M[rs[2]][cs[3]] * M[rs[3]][cs[2]])
                - M[rs[1]][cs[2]] * (M[rs[2]][cs[1]] * M[rs[3]][cs[3]] - M[rs[2]][cs[3]] * M[rs[3]][cs[1]])
                + M[rs[1]][cs[3]] * (M[rs[2]][cs[1]] * M[rs[3]][cs[2]] - M[rs[2]][cs[2]] * M[rs[3]][cs[1]])
        Cofactor(r, c) == IF (r + c) % 2 = 0 THEN Minor(r, c) ELSE 0 - Minor(r, c)
        det == M[1][1] * Cofactor(1, 1) + M[1][2] * Cofactor(1, 2)
                 + M[1][3] * Cofactor(1, 3) + M[1][4] * Cofactor(1, 4)
        Quotient(x, d) == IF d > 0 THEN x \div d ELSE (0 - x) \div (0 - d)
    IN  [r \in 1..4 |-> [c \in 1..4 |-> Quotient(Cofactor(c, r), det)]]

\* tfs.euler_matrix(ai, aj, ak, 'szyz'): first axis z, parity 1 (the angles
\* are negated), repetition 1, static frame; i, j, k are the axes z, y, x.
EulerMatrixSZYZ(a1, a2, a3) ==
    LET ai == 0 - a1
        aj == 0 - a2
        ak == 0 - a3
        si == Sin(ai)
        sj == Sin(aj)
        sk == Sin(ak)
        ci == Cos(ai)
        cj == Cos(aj)
        ck == Cos(ak)
        cc == ci * ck
        cs == ci * sk
        sc == si * ck
        ss == si * sk
    IN  <<  <<cj * cc - ss, cj * sc + cs, (0 - sj) * ck, 0>>,
            <<(0 - cj) * cs - sc, (0 - cj) * ss + cc, sj * sk, 0>>,
            <<sj * ci, sj * si, cj, 0>>,
            <<0, 0, 0, 1>>  >>

\* M[0, 3], M[1, 3], M[2, 3] = sx, sy, sz
SetShifts(M, sx, sy, sz) ==
    [r \in 1..4 |-> [c \in 1..4 |->
        IF c = 4 /\ r = 1 THEN sx
        ELSE IF c = 4 /\ r = 2 THEN sy
        ELSE IF c = 4 /\ r = 3 THEN sz
        ELSE M[r][c]]]

\* Mutant: the shifts are negated and the matrix inverted whatever the flag.
getTransformMatrix_AlwaysInverts(row, inv) ==
    MatInv(SetShifts(EulerMatrixSZYZ(0 - RowGet(row, ROT, 0), 0 - RowGet(row, TILT, 0),
                                     0 - RowGet(row, PSI, 0)),
                     0 - RowGet(row, SHIFTX, 0), 0 - RowGet(row, SHIFTY, 0),
                     0 - RowGet(row, SHIFTZ, 0)))

\* Mutant: the shifts are inserted as given before the inversion.
getTransformMatrix_KeepsShiftSign(row, inv) ==
    LET M == SetShifts(EulerMatrixSZYZ(0 - RowGet(row, ROT, 0), 0 - RowGet(row, TILT, 0),
                                       0 - RowGet(row, PSI, 0)),
                       RowGet(row, SHIFTX, 0), RowGet(row, SHIFTY, 0), RowGet(row, SHIFTZ, 0))
    IN  IF inv THEN MatInv(M) ELSE M

\* Mutant: a missing angle counts as 90 degrees.
getTransformMatrix_DefaultAngle90(row, inv) ==
    LET M == EulerMatrixSZYZ(0 - RowGet(row, ROT, 90), 0 - RowGet(row, TILT, 90),
                             0 - RowGet(row, PSI, 90))
    IN  IF inv
        THEN MatInv(SetShifts(M, 0 - RowGet(row, SHIFTX, 0), 0 - RowGet(row, SHIFTY, 0),
                              0 - RowGet(row, SHIFTZ, 0)))
        ELSE SetShifts(M, RowGet(row, SHIFTX, 0), RowGet(row, SHIFTY, 0), RowGet(row, SHIFTZ, 0))

\* _getTransformMatrix(row, invert); angles in degrees, radAngles negated.
getTransformMatrix(row, inv) ==
    LET shiftx == RowGet(row, SHIFTX, 0)
        shifty == RowGet(row, SHIFTY, 0)
        shiftz == RowGet(row, SHIFTZ, 0)
        tilt == RowGet(row, TILT, 0)
        psi == RowGet(row, PSI, 0)
        rot == RowGet(row, ROT, 0)
        M == EulerMatrixSZYZ(0 - rot, 0 - tilt, 0 - psi)
    IN  IF inv
        THEN MatInv(SetShifts(M, 0 - shiftx, 0 - shifty, 0 - shiftz))
        ELSE SetShifts(M, shiftx, shifty, shiftz)

(***************************************************************************)
(* The conversion of one row into a position and a transform (lines        *)
(* 149-164 and 261-268).                                                   *)
(***************************************************************************)
CoordLabels == {COORD_X, COORD_Y, COORD_Z}
AngleLabels == {ROT, TILT, PSI}
ShiftLabels == {SHIFTX, SHIFTY, SHIFTZ}
NumericLabels == CoordLabels \cup AngleLabels \cup ShiftLabels

AngleValues == {0, 90, 180, 270}
ShiftValues == {0 - 2, 0, 3}
CoordValue(c) == IF c = COORD_X THEN 5 ELSE IF c = COORD_Y THEN 6 ELSE 7

NoCoord == [x |-> 0, y |-> 0, z |-> 0, M |-> <<>>]

TrIdle ==
    /\ trMissing = {}
    /\ trRow = <<>>
    /\ invert = TRUE
    /\ trCoord = NoCoord
    /\ trPc = "idle"

\* Mutant: a missing coordinate counts as 1.
ConvertedCoord_DefaultOne(row, inv) ==
    [x |-> RowGet(row, COORD_X, 1), y |-> RowGet(row, COORD_Y, 1), z |-> RowGet(row, COORD_Z, 1),
     M |-> getTransformMatrix(row, inv)]

\* Lines 261-268: x, y, z and the matrix of the row.
ConvertedCoord(row, inv) ==
    [x |-> RowGet(row, COORD_X, 0),
     y |-> RowGet(row, COORD_Y, 0),
     z |-> RowGet(row, COORD_Z, 0),
     M |-> getTransformMatrix(row, inv)]

ConvertRow ==
    /\ trPc = "start"
    /\ trCoord' = ConvertedCoord(trRow, invert)
    /\ trPc' = "done"
    /\ UNCHANGED <<trMissing, trRow, invert, splitVars, vesVars, readVars, psVars, insVars, grVars, cmdParams, cmdArgs, cmdDisk>>

(***************************************************************************)
(* The pre-segmentation protocol: its five steps and the creation of its   *)
(* outputs (protocol_pre_seg.py).                                          *)
(***************************************************************************)
\* _insertAllSteps: the steps in the order they are inserted.
PreSegSteps ==
    <<"convertInputStep", "pysegPreSegStep", "getMembraneCenterStep",
      "pysegPreSegCenteredStep", "createOutputStep">>

\* Mutant: the steps are inserted without prerequisites.
PreSegPrerequisites_None(i) == {}

\* _insertFunctionStep without prerequisites: the step waits for the step
\* inserted before it.
PreSegPrerequisites(i) == IF i = 1 THEN {} ELSE {i - 1}

\* The step at position i may start: the protocol has not failed, the step
\* has not run and its prerequisites are finished.
PreSegCanRun(i) ==
    /\ psState = "running"
    /\ PreSegSteps[i] \notin Range(psLog)
    /\ \A p \in PreSegPrerequisites(i) : PreSegSteps[p] \in Range(psLog)

\* self._starFile, PRE_STAR_SUFFIX and the other star files of the protocol.
InStarFile == <<"i", "n", "S", "t", "a", "r", ".", "s", "t", "a", "r">>
PRE_STAR_SUFFIX == <<"_", "p", "r", "e", ".", "s", "t", "a", "r">>
getPresegOutputFile(starName) == removeBaseExt(starName) \o PRE_STAR_SUFFIX
getVesiclesCenteredStarFile == <<"c", "e", "n", "t", "e", "r", "e", "d", ".", "s", "t", "a", "r">>

\* Dimensions (x, y, z) of the tomogram.
TomoDims == <<4, 4, 4>>

\* The files the external program writes for its i-th vesicle: the crop
\* <tomo>_tid_<i>.mrc and its segmentation <tomo>_tid_<i>_seg.mrc.
VesicleFile(i, seg) ==
    <<"t", "_", "t", "i", "d", "_", <<"0", "1", "2", "3", "4">>[i + 1]>>
        \o (IF seg THEN <<"_", "s", "e", "g">> ELSE <<>>) \o <<".", "m", "r", "c">>

\* s.replace(old, new): every occurrence, from the left.
RECURSIVE Replace(_, _, _)
Replace(s, old, new) ==
    IF Len(s) = 0 THEN s
    ELSE IF OccursAt(s, old, 0) THEN new \o Replace(PySliceFrom(s, Len(old)), old, new)
    ELSE <<s[1]>> \o Replace(Tail(s), old, new)

\* Mutant: only the segmentation file is removed.
removeVesicleFiles_OnlySeg(files, vesicle_seg) ==
    [files |-> files \ {vesicle_seg}, raised |-> vesicle_seg \notin files]

\* _removeVesicleFiles(vesicle_seg) on the files of the disk: os.remove raises
\* when the file does not exist.
removeVesicleFiles(files, vesicle_seg) ==
    LET crop == Replace(vesicle_seg, <<"_", "s", "e", "g", ".", "m", "r", "c">>,
                        <<".", "m", "r", "c">>)
    IN  IF vesicle_seg \notin files
        THEN [files |-> files, raised |-> TRUE]
        ELSE IF crop \notin files \ {vesicle_seg}
        THEN [files |-> files \ {vesicle_seg}, raised |-> TRUE]
        ELSE [files |-> files \ {vesicle_seg, crop}, raised |-> FALSE]

\* Mutant: only width and height are compared with the tomogram.
IsWholeTomogram_IgnoresDepth(dims) == dims[1] = TomoDims[1] /\ dims[2] = TomoDims[2]

\* (x, y, z) == (tomoX, tomoY, tomoZ)
IsWholeTomogram(dims) == dims = TomoDims

\* Mutant: the filter is applied only when both thresholds are set.
FailsSizeFilter_NeedsBoth(dims, minSize, minDepth) ==
    /\ minSize > 0 /\ minDepth > 0
    /\ (dims[1] < minSize \/ dims[2] < minSize \/ dims[3] < minDepth)

\* Lines 343-345: the size filtering.
FailsSizeFilter(dims, minSize, minDepth) ==
    /\ minSize > 0 \/ minDepth > 0
    /\ (dims[1] < minSize \/ dims[2] < minSize \/ dims[3] < minDepth)

NoOutput ==
    [tomoMasks |-> <<>>, subTomos |-> <<>>, finalRows |-> <<>>, removed |-> 0,
     files |-> {}, raised |-> FALSE, defined |-> FALSE]

\* Mutant: a removed row is still written to the final star file.
RECURSIVE genOutputSetOfTomoMasks_KeepsRemovedRows(_, _, _, _)
genOutputSetOfTomoMasks_KeepsRemovedRows(rows, minSize, minDepth, acc) ==
    IF rows = <<>> \/ acc.raised THEN acc
    ELSE LET row == Head(rows)
             rm == removeVesicleFiles(acc.files, row.vesicleSeg)
             classId == getVesicleIdFromSubtomoName(row.vesicle)
         IN  genOutputSetOfTomoMasks_KeepsRemovedRows(Tail(rows), minSize, minDepth,
                 IF IsWholeTomogram(row.dims) \/ FailsSizeFilter(row.dims, minSize, minDepth)
                 THEN [acc EXCEPT !.files = rm.files, !.raised = rm.raised,
                                  !.removed = IF rm.raised THEN @ ELSE @ + 1,
                                  !.finalRows = Append(@, row)]
                 ELSE [acc EXCEPT
                         !.tomoMasks = Append(@, [fileName |-> row.vesicleSeg,
                                                  volName |-> row.vesicle, classId |-> classId]),
                         !.subTomos = Append(@, [fileName |-> row.vesicle,
                                                 volName |-> row.tomogram, classId |-> classId]),
                         !.finalRows = Append(@, row)])

\* The loop of _genOutputSetOfTomoMasks over the rows of the star file, from
\* the state acc of the sets, the final table, the count and the disk.
RECURSIVE genOutputSetOfTomoMasks(_, _, _, _)
genOutputSetOfTomoMasks(rows, minSize, minDepth, acc) ==
    IF rows = <<>> \/ acc.raised THEN acc
    ELSE LET row == Head(rows)
             rm == removeVesicleFiles(acc.files, row.vesicleSeg)
             classId == getVesicleIdFromSubtomoName(row.vesicle)
         IN  genOutputSetOfTomoMasks(Tail(rows), minSize, minDepth,
                 IF IsWholeTomogram(row.dims) \/ FailsSizeFilter(row.dims, minSize, minDepth)
                 THEN [acc EXCEPT !.files = rm.files, !.raised = rm.raised,
                                  !.removed = IF rm.raised THEN @ ELSE @ + 1]
                 ELSE [acc EXCEPT
                         !.tomoMasks = Append(@, [fileName |-> row.vesicleSeg,
                                                  volName |-> row.vesicle, classId |-> classId]),
                         !.subTomos = Append(@, [fileName |-> row.vesicle,
                                                 volName |-> row.tomogram, classId |-> classId]),
                         !.finalRows = Append(@, row)])

PreSegIdle ==
    /\ psMinXY = 0 - 1
    /\ psMinDepth = 0 - 1
    /\ psRecords = <<>>
    /\ psLog = <<>>
    /\ psState = "idle"
    /\ psDisk = {}
    /\ psOut = NoOutput
    /\ psSummary = [called |-> FALSE, removed |-> 0, msgs |-> <<>>, none |-> FALSE, value |-> <<>>]
    /\ grInput = [called |-> FALSE, kind |-> "none", masks |-> <<>>, inStar |-> <<>>,
                  subsetStarFile |-> <<>>, rows |-> <<>>, raised |-> FALSE]

\* The end of step i, which reads the files reads: it fails when one of them
\* does not exist or when its body fails (ok is false); diskAfter is the
\* disk its body leaves.
PreSegStepEnds(i, reads, ok, diskAfter) ==
    IF reads \subseteq psDisk
    THEN /\ psDisk' = diskAfter
         /\ IF ok
            THEN /\ psLog' = Append(psLog, PreSegSteps[i])
                 /\ psState' = IF Len(psLog) + 1 = Len(PreSegSteps) THEN "finished" ELSE "running"
            ELSE /\ psState' = "failed"
                 /\ UNCHANGED psLog
    ELSE /\ psState' = "failed"
         /\ UNCHANGED <<psLog, psDisk>>

convertInputStep ==
    /\ PreSegCanRun(1)
    /\ PreSegStepEnds(1, {}, TRUE, psDisk \cup {InStarFile})
    /\ UNCHANGED <<psMinXY, psMinDepth, psRecords, psOut, psSummary, grInput>>

\* Plugin.runPySeg raises when the external program fails.
pysegPreSegStep ==
    /\ PreSegCanRun(2)
    /\ \E ok \in BOOLEAN :
            PreSegStepEnds(2, {InStarFile}, ok,
                           IF ok THEN psDisk \cup {getPresegOutputFile(InStarFile)} ELSE psDisk)
    /\ UNCHANGED <<psMinXY, psMinDepth, psRecords, psOut, psSummary, grInput>>

getMembraneCenterStep ==
    /\ PreSegCanRun(3)
    /\ PreSegStepEnds(3, {InStarFile, getPresegOutputFile(InStarFile)}, TRUE,
                      psDisk \cup {getVesiclesCenteredStarFile})
    /\ UNCHANGED <<psMinXY, psMinDepth, psRecords, psOut, psSummary, grInput>>

\* The second external run writes its star file and the files of its rows.
pysegPreSegCenteredStep ==
    /\ PreSegCanRun(4)
    /\ \E ok \in BOOLEAN :
            PreSegStepEnds(4, {getVesiclesCenteredStarFile}, ok,
                IF ok
                THEN psDisk \cup {getPresegOutputFile(getVesiclesCenteredStarFile)}
                        \cup UNION {{r.vesicle, r.vesicleSeg} : r \in Range(psRecords)}
                ELSE psDisk)
    /\ UNCHANGED <<psMinXY, psMinDepth, psRecords, psOut, psSummary, grInput>>

\* createOutputStep: _genOutputSetOfTomoMasks, then _defineOutputs.
createOutputStep ==
    /\ PreSegCanRun(5)
    /\ LET starFile == getPresegOutputFile(getVesiclesCenteredStarFile)
           out == genOutputSetOfTomoMasks(psRecords, psMinXY, psMinDepth,
                                          [NoOutput EXCEPT !.files = psDisk])
       IN  /\ PreSegStepEnds(5, {starFile}, ~out.raised,
                             IF out.raised THEN out.files
                             ELSE out.files \cup {<<"p", "r", "e", "s", "e", "g", "R", "e", "s", "u",
                                                     "l", "t", "s", ".", "s", "t", "a", "r">>})
           /\ psOut' = IF starFile \in psDisk
                       THEN [out EXCEPT !.defined = ~out.raised]
                       ELSE psOut
    /\ UNCHANGED <<psMinXY, psMinDepth, psRecords, psSummary, grInput>>

\* _summary: the attribute N_SEGS_REMOVED is set by _genOutputSetOfTomoMasks
\* when it ends with a count above 0 (lines 375-376); the message is
\* appended to msgs, and the function ends without a return statement, so
\* the call yields None.
summary ==
    /\ psState # "idle"
    /\ ~psSummary.called
    /\ LET nSegmentationsRemoved == IF psOut.defined /\ psOut.removed > 0 THEN psOut.removed ELSE 0
           msgs == IF nSegmentationsRemoved # 0
                   THEN <<"Number of segmentations removed by size filtering was "
                            \o Decimal(nSegmentationsRemoved)>>
                   ELSE <<>>
       IN  psSummary' = [called |-> TRUE, removed |-> nSegmentationsRemoved, msgs |-> msgs,
                         none |-> TRUE, value |-> <<>>]
    /\ UNCHANGED <<psMinXY, psMinDepth, psRecords, psLog, psState, psDisk, psOut, grInput>>

\* _getPreSegStarFile: for the pre-segmentation protocol its
\* getPresegOutputFile(getVesiclesCenteredStarFile()), for a set of tomo
\* masks the _pysegPresegVesicleCStar the set carries (line 325).
getPreSegStarFile(kind) ==
    IF kind = "ProtPySegPreSegParticles"
    THEN getPresegOutputFile(getVesiclesCenteredStarFile)
    ELSE <<"p", "r", "e", "s", "e", "g", "R", "e", "s", "u", "l", "t", "s", ".", "s", "t", "a", "r">>

\* Mutant: the row of a mask is the row at the position of the mask.
manageInStarFile_ByPosition(kind, masks, preSegTable) ==
    IF kind = "SetOfTomoMasks" /\ Len(preSegTable) # Len(masks)
    THEN [outStarFile |-> <<"i", "n", "S", "e", "g", "V", "e", "s", "i", "c", "l", "e", "s",
                            ".", "s", "t", "a", "r">>,
          rows |-> [i \in 1..Len(masks) |-> preSegTable[i]],
          raised |-> FALSE]
    ELSE [outStarFile |-> <<>>, rows |-> <<>>, raised |-> FALSE]

\* _manageInStarFile(inStar) for the input masks and the table of inStar:
\* the subset star file and its rows; a mask whose file is in no row of the
\* table raises KeyError.
manageInStarFile(kind, masks, preSegTable) ==
    IF kind = "SetOfTomoMasks" /\ Len(preSegTable) # Len(masks)
    THEN LET RowsOf(fileName) == {i \in 1..Len(preSegTable) : preSegTable[i].vesicleSeg = fileName}
             matchRowInd(fileName) ==
                CHOOSE i \in RowsOf(fileName) : \A k \in RowsOf(fileName) : k <= i
         IN  [outStarFile |-> <<"i", "n", "S", "e", "g", "V", "e", "s", "i", "c", "l", "e", "s",
                                ".", "s", "t", "a", "r">>,
              rows |-> IF \E i \in 1..Len(masks) : RowsOf(masks[i].fileName) = {}
                       THEN <<>>
                       ELSE [i \in 1..Len(masks) |-> preSegTable[matchRowInd(masks[i].fileName)]],
              raised |-> \E i \in 1..Len(masks) : RowsOf(masks[i].fileName) = {}]
    ELSE [outStarFile |-> <<>>, rows |-> <<>>, raised |-> FALSE]

\* _initialize of a graphs protocol whose input is the finished
\* pre-segmentation protocol, its set of tomo masks or a subset of that set
\* (not empty, in the order of the set): the star file that is split.
initialize ==
    /\ psOut.defined
    /\ ~grInput.called
    /\ \E kind \in {"ProtPySegPreSegParticles", "SetOfTomoMasks"},
          keep \in SUBSET (1..Len(psOut.tomoMasks)) :
            /\ kind = "ProtPySegPreSegParticles" => keep = {}
            /\ kind = "SetOfTomoMasks" => (keep # {} \/ psOut.tomoMasks = <<>>)
            /\ LET masks == SelectSeq(psOut.tomoMasks,
                                      LAMBDA mask : \E i \in keep : psOut.tomoMasks[i] = mask)
                   preSegStar == getPreSegStarFile(kind)
                   preSegTable == IF preSegStar = getPresegOutputFile(getVesiclesCenteredStarFile)
                                THEN psRecords ELSE psOut.finalRows
                   subset == manageInStarFile(kind, masks, preSegTable)
               IN  /\ grInput' = [called |-> TRUE, kind |-> kind, masks |-> masks,
                                  inStar |-> IF subset.outStarFile # <<>>
                                             THEN subset.outStarFile ELSE preSegStar,
                                  subsetStarFile |-> subset.outStarFile,
                                  rows |-> IF subset.outStarFile # <<>>
                                           THEN subset.rows ELSE preSegTable,
                                  raised |-> subset.raised]
                   /\ psDisk' = IF subset.outStarFile # <<>> /\ ~subset.raised
                                THEN psDisk \cup {subset.outStarFile} ELSE psDisk
    /\ UNCHANGED <<psMinXY, psMinDepth, psRecords, psLog, psState, psOut, psSummary>>

(***************************************************************************)
(* The compiler check of the installation (__init__.py).                   *)
(***************************************************************************)
\* What "<compiler> -dumpversion" prints for the major version v: the major
\* version alone or major.minor.patch, and a newline.
DumpVersion(v, full) ==
    (IF v < 10 THEN <<Digit(v)>> ELSE <<Digit(v \div 10), Digit(v % 10)>>)
        \o (IF full THEN <<".", "4", ".", "0">> ELSE <<>>) \o <<"\n">>

\* _getCompilerVer: int(result.strip().split(".")[0])
getCompilerVer(result) ==
    LET stripped == SelectSeq(result, LAMBDA ch : ch \notin {"\n", " "})
        first == IF Contains(stripped, <<".">>) THEN PySlice(stripped, 0, Find(stripped, <<".">>))
                 ELSE stripped
        RECURSIVE ToInt(_)
        ToInt(digits) ==
            IF digits = <<>> THEN 0
            ELSE 10 * ToInt(SubSeq(digits, 1, Len(digits) - 1))
                    + (CHOOSE d \in 0..9 : Digit(d) = digits[Len(digits)])
    IN  ToInt(first)

\* Mutant: only the range of the gcc version is checked.
checkCompilingDrivers_RangeOnly(gccResult, gppResult) ==
    LET gccVersion == getCompilerVer(gccResult)
        gppVersion == getCompilerVer(gppResult)
    IN  IF gccVersion < 5 \/ gccVersion > 12
        THEN "gcc-" \o Decimal(gccVersion) \o " detected. g++-" \o Decimal(gppVersion)
                \o " detected. Required conditions: [1] Both compilers version must be the same. "
                \o "[2] Compiler version must be in range [5, 12]."
        ELSE ""

\* _checkCompilingDrivers on what the two compilers print.
checkCompilingDrivers(gccResult, gppResult) ==
    LET minVer == 5
        maxVer == 12
        gccVersion == getCompilerVer(gccResult)
        gppVersion == getCompilerVer(gppResult)
    IN  IF \/ gccVersion # gppVersion
           \/ (gccVersion = gppVersion /\ (gccVersion < minVer \/ gccVersion > maxVer))
        THEN "gcc-" \o Decimal(gccVersion) \o " detected. g++-" \o Decimal(gppVersion)
                \o " detected. Required conditions: [1] Both compilers version must be the same. "
                \o "[2] Compiler version must be in range [" \o Decimal(minVer) \o ", "
                \o Decimal(maxVer) \o "]."
        ELSE ""

InstallIdle ==
    /\ gccMajor = 5
    /\ gppMajor = 5
    /\ dumpFull = FALSE
    /\ installation = [commands |-> <<>>, message |-> ""]
    /\ insPc = "idle"

\* defineBinaries: the commands handed to env.addPackage, each as the
\* programs it runs, and the message the recipe prints.
defineBinaries ==
    /\ insPc = "start"
    /\ LET compErrMsg == checkCompilingDrivers(DumpVersion(gccMajor, dumpFull),
                                               DumpVersion(gppMajor, dumpFull))
       IN  installation' =
            IF compErrMsg # ""
            THEN [commands |-> <<<<"rm", "echo">>>>, message |-> compErrMsg]
            ELSE [commands |->
                    <<<<"conda", "conda", "pip", "touch">>,
                      <<"wget", "tar", "rm", "cd", "touch">>,
                      <<"tar", "cd", "mkdir", "./configure", "make", "make", "cd", "touch">>,
                      <<"cd", "rm", "wget", "tar", "cd", "cmake", "make", "make", "cd", "touch">>,
                      <<"cd", "touch">>>>,
                  message |-> ""]
    /\ insPc' = "done"
    /\ UNCHANGED <<gccMajor, gppMajor, dumpFull, splitVars, vesVars, readVars, trVars, psVars, grVars, cmdParams, cmdArgs, cmdDisk>>

(***************************************************************************)
(* The graphs protocol: its steps and their execution (protocol_graphs.py, *)
(* stepsExecutionMode = STEPS_PARALLEL).                                   *)
(***************************************************************************)
\* Mutant: the cleanup step is inserted without prerequisites.
InsertedGraphSteps_CleanupFree(stars) ==
    [i \in 1..Len(stars) |->
        [func |-> "pysegGraphs", starFile |-> stars[i], prerequisites |-> {}]]
    \o <<[func |-> "removeUnusedFilesStep", starFile |-> <<>>, prerequisites |-> {}]>>

\* _insertAllSteps on the star files stars: one pysegGraphs step per star file, prerequisites=[],
\* then removeUnusedFilesStep with prerequisites=stepIdList.
InsertedGraphSteps(stars) ==
    [i \in 1..Len(stars) |->
        [func |-> "pysegGraphs", starFile |-> stars[i], prerequisites |-> {}]]
    \o <<[func |-> "removeUnusedFilesStep", starFile |-> <<>>,
          prerequisites |-> 1..Len(stars)]>>

\* Mutant: the name of the star file is not used.
genOutSplitStarFileName_IgnoresName(outDir, starFile) == outDir \o <<"/", "g", ".", "s", "t", "a", "r">>

\* genOutSplitStarFileName(outDir, starFile) = join(outDir, basename(starFile))
genOutSplitStarFileName(outDir, starFile) == outDir \o <<"/">> \o Basename(starFile)

\* Mutant: the result is moved whether or not the external program failed.
pysegGraphsFiles_IgnoresFailure(files, starFile, ok) ==
    files \cup {genOutSplitStarFileName(<<"x", "/", "o">>, starFile)}

\* The files after the body of pysegGraphs(starFile): the external program,
\* when it succeeds, writes its graph star file and a disperse directory in
\* the extra path x, and moveFile takes the star file to the output star
\* directory; runPySeg raises when the program fails.
pysegGraphsFiles(files, starFile, ok) ==
    LET result == Replace(<<"x", "/">> \o Basename(starFile), <<".", "s", "t", "a", "r">>,
                          <<"_", "m", "b", "_", "g", "r", "a", "p", "h", ".", "s", "t", "a", "r">>)
        disperseDir == <<"x", "/", "d", "i", "s", "p", "e", "r", "s", "e", "_">>
                            \o removeBaseExt(starFile)
        written == files \cup {result, disperseDir}
    IN  IF ok
        THEN (written \ {result}) \cup {genOutSplitStarFileName(<<"x", "/", "o">>, starFile)}
        ELSE files

GraphsIdle ==
    /\ starFileList = <<>>
    /\ keepOnlyReqFiles = FALSE
    /\ grSteps = <<>>
    /\ grStatus = <<>>
    /\ grInvocations = <<>>
    /\ grDisk = {}

\* _insertAllSteps
insertAllSteps ==
    /\ grSteps = <<>>
    /\ grSteps' = InsertedGraphSteps(starFileList)
    /\ grStatus' = [i \in 1..(Len(starFileList) + 1) |-> "new"]
    /\ grInvocations' = [i \in 1..(Len(starFileList) + 1) |-> 0]
    /\ UNCHANGED <<starFileList, keepOnlyReqFiles, grDisk>>

\* The executor starts a step that has not run once its prerequisites are
\* finished, as long as no step has failed.
StartGraphsStep ==
    \E i \in 1..Len(grSteps) :
        /\ grStatus[i] = "new"
        /\ \A k \in 1..Len(grSteps) : grStatus[k] # "failed"
        /\ \A p \in grSteps[i].prerequisites : grStatus[p] = "finished"
        /\ grStatus' = [grStatus EXCEPT ![i] = "running"]
        /\ UNCHANGED <<starFileList, keepOnlyReqFiles, grSteps, grInvocations, grDisk>>

\* pysegGraphs(starFile): one call of the external program, then moveFile.
pysegGraphs ==
    \E i \in 1..Len(grSteps), ok \in BOOLEAN :
        /\ grSteps[i].func = "pysegGraphs"
        /\ grStatus[i] = "running"
        /\ grInvocations' = [grInvocations EXCEPT ![i] = @ + 1]
        /\ grDisk' = pysegGraphsFiles(grDisk, grSteps[i].starFile, ok)
        /\ grStatus' = [grStatus EXCEPT ![i] = IF ok THEN "finished" ELSE "failed"]
        /\ UNCHANGED <<starFileList, keepOnlyReqFiles, grSteps>>

\* removeUnusedFilesStep: the disperse_* directories are removed on request.
removeUnusedFilesStep ==
    \E i \in 1..Len(grSteps) :
        /\ grSteps[i].func = "removeUnusedFilesStep"
        /\ grStatus[i] = "running"
        /\ grDisk' = IF keepOnlyReqFiles
                     THEN {f \in grDisk :
                            ~OccursAt(f, <<"x", "/", "d", "i", "s", "p", "e", "r", "s", "e", "_">>, 0)}
                     ELSE grDisk
        /\ grStatus' = [grStatus EXCEPT ![i] = "finished"]
        /\ UNCHANGED <<starFileList, keepOnlyReqFiles, grSteps, grInvocations>>

(***************************************************************************)
(* The arguments of the external programs that carry a length.  A length   *)
(* is an integer number of twentieths: 20 stands for 1.0 and -20 for -1.   *)
(***************************************************************************)
\* Mutant: -1 is divided like any other value.
checkValue4PySeg_AlwaysDivides(value) == value \div 10

\* _checkValue4PySeg(value): value if value == -1 else value/10
checkValue4PySeg(value) == IF value = 0 - 20 THEN value ELSE value \div 10

\* _getPreSegCmd: the arguments sgVoxelSize, sgMembThk and sgMembNeigh.
getPreSegCmd(params) ==
    [program |-> "pre_tomos_seg",
     sgVoxelSize |-> params.samplingRate \div 10,
     sgMembThk |-> checkValue4PySeg(params.sgMembThk \div 2),
     sgMembNeigh |-> checkValue4PySeg(params.sgMembNeigh),
     pixelSize |-> 0, maxLen |-> 0, slicesFile |-> <<>>]

\* _getGraphsCommand: the arguments pixelSize and maxLen.
getGraphsCommand(params) ==
    [program |-> "mb_graph_batch",
     sgVoxelSize |-> 0, sgMembThk |-> 0, sgMembNeigh |-> 0,
     pixelSize |-> params.samplingRate \div 10,
     maxLen |-> params.maxLen \div 10,
     slicesFile |-> <<>>]

\* Mutant: the area index is written as it is.
encodePresegArea_Unshifted(areaIndex) == areaIndex

\* encodePresegArea(areaIndex): int(areaIndex) + 1
encodePresegArea(areaIndex) == areaIndex + 1

\* _createPickingXmlFile(templateFile, outDir) on the files of the disk: the
\* template is copied to join(outDir, basename(templateFile)), the fields
\* side and cont of the first mb_slice of the copy are rewritten
\* (_decodeContValue: '+' for CUTTING_POINT = 0, else '-') and the copy is
\* written back; _xmlSlices is the copy.
createPickingXmlFile(files, templateFile, outDir, params) ==
    LET filename == outDir \o <<"/">> \o Basename(templateFile)
        decodeContValue(val) == IF val = 0 THEN "+" ELSE "-"
        copied == [f \in DOMAIN files \cup {filename} |->
                        IF f = filename THEN files[templateFile] ELSE files[f]]
        xmlTree == copied[filename]
        mb_slice == [xmlTree[1] EXCEPT !.side = Decimal(encodePresegArea(params.side)),
                                       !.cont = decodeContValue(params.cont)]
    IN  [xmlSlices |-> filename,
         files |-> [copied EXCEPT ![filename] = [xmlTree EXCEPT ![1] = mb_slice]]]

\* _getPickingCommand: the argument slicesFile.
getPickingCommand(xmlSlices) ==
    [program |-> "mb_picking",
     sgVoxelSize |-> 0, sgMembThk |-> 0, sgMembNeigh |-> 0, pixelSize |-> 0, maxLen |-> 0,
     slicesFile |-> xmlSlices]

CmdIdle ==
    /\ cmdParams = [protocol |-> "none", samplingRate |-> 0, sgMembThk |-> 0, sgMembNeigh |-> 0,
                    maxLen |-> 0, side |-> 0, cont |-> 0, templateFile |-> <<>>, template |-> <<>>]
    /\ cmdArgs = <<>>
    /\ cmdDisk = <<>>

\* The step of a protocol builds its command line; pysegPicking first
\* creates the slices file in its extra directory.
BuildCommand ==
    /\ cmdParams.protocol # "none"
    /\ cmdArgs = <<>>
    /\ IF cmdParams.protocol = "picking"
       THEN LET created == createPickingXmlFile(cmdDisk, cmdParams.templateFile, <<"x">>, cmdParams)
            IN  /\ cmdDisk' = created.files
                /\ cmdArgs' = getPickingCommand(created.xmlSlices)
       ELSE /\ cmdArgs' = IF cmdParams.protocol = "preseg"
                          THEN getPreSegCmd(cmdParams) ELSE getGraphsCommand(cmdParams)
            /\ UNCHANGED cmdDisk
    /\ UNCHANGED <<cmdParams, splitVars, vesVars, readVars, trVars, psVars, insVars, grVars>>

(***************************************************************************)
(* Specifications.                                                         *)
(***************************************************************************)
SplitInit == SplitStart /\ VesIdle /\ ReadIdle /\ TrIdle /\ PreSegIdle /\ InstallIdle /\ GraphsIdle /\ CmdIdle

SplitNext ==
    \/ SplitRead /\ UNCHANGED <<vesVars, readVars, trVars, psVars, insVars, grVars, cmdParams, cmdArgs, cmdDisk>>
    \/ SplitLoopStep /\ UNCHANGED <<vesVars, readVars, trVars, psVars, insVars, grVars, cmdParams, cmdArgs, cmdDisk>>
    \/ SplitRemainder /\ UNCHANGED <<vesVars, readVars, trVars, psVars, insVars, grVars, cmdParams, cmdArgs, cmdDisk>>

SpecSplit == SplitInit /\ [][SplitNext]_vars

VesInit == VesStart /\ SplitIdle /\ ReadIdle /\ TrIdle /\ PreSegIdle /\ InstallIdle /\ GraphsIdle /\ CmdIdle

VesNext == GetVesicleId \/ SetSubtomoGroupId

SpecVesicleId == VesInit /\ [][VesNext]_vars

ReadInit == ReadStart /\ SplitIdle /\ VesIdle /\ TrIdle /\ PreSegIdle /\ InstallIdle /\ GraphsIdle /\ CmdIdle

ReadNext == ReadParticlesStarFile /\ UNCHANGED <<splitVars, vesVars, trVars, psVars, insVars, grVars, cmdParams, cmdArgs, cmdDisk>>

SpecRead == ReadInit /\ [][ReadNext]_vars

\* The rows: no label missing, one label missing, or whole groups missing;
\* the labels a row has carry an angle, a shift or a coordinate.
TrInit ==
    LET MissingProfiles ==
            {{}} \cup {{c} : c \in NumericLabels}
                 \cup {UNION g : g \in (SUBSET {CoordLabels, AngleLabels, ShiftLabels}) \ {{}}}
        RowsWithout(miss) ==
            {[c \in NumericLabels \ miss |->
                IF c \in AngleLabels THEN a[c]
                ELSE IF c \in ShiftLabels THEN sh[c] ELSE CoordValue(c)] :
                a \in [AngleLabels \ miss -> AngleValues],
                sh \in [ShiftLabels \ miss -> ShiftValues]}
    IN  /\ trMissing \in MissingProfiles
        /\ trRow \in RowsWithout(trMissing)
        /\ invert \in BOOLEAN
        /\ trCoord = NoCoord
        /\ trPc = "start"
        /\ SplitIdle /\ VesIdle /\ ReadIdle /\ PreSegIdle /\ InstallIdle /\ GraphsIdle /\ CmdIdle

SpecTransform == TrInit /\ [][ConvertRow]_vars

\* The parameters, and the rows of the star file the second external run
\* will write: each a vesicle cropped from the tomogram, with its files.
PreSegInit ==
    /\ psMinXY \in {0 - 1, 0, 3}
    /\ psMinDepth \in {0 - 1, 2}
    /\ \E n \in 0..MaxRecords :
         \E d \in [1..n -> {<<4, 4, 4>>, <<4, 4, 2>>, <<1, 4, 4>>, <<4, 1, 4>>, <<3, 3, 3>>,
                             <<2, 2, 1>>}] :
            psRecords = [i \in 1..n |->
                            [tomogram |-> "tomo.mrc", vesicle |-> VesicleFile(i, FALSE),
                             vesicleSeg |-> VesicleFile(i, TRUE), dims |-> d[i]]]
    /\ psLog = <<>>
    /\ psState = "running"
    /\ psDisk = {}
    /\ psOut = NoOutput
    /\ psSummary = [called |-> FALSE, removed |-> 0, msgs |-> <<>>, none |-> FALSE, value |-> <<>>]
    /\ grInput = [called |-> FALSE, kind |-> "none", masks |-> <<>>, inStar |-> <<>>,
                  subsetStarFile |-> <<>>, rows |-> <<>>, raised |-> FALSE]
    /\ SplitIdle /\ VesIdle /\ ReadIdle /\ TrIdle /\ InstallIdle /\ GraphsIdle /\ CmdIdle

PreSegNext ==
    \/ convertInputStep /\ UNCHANGED <<splitVars, vesVars, readVars, trVars, insVars, grVars, cmdParams, cmdArgs, cmdDisk>>
    \/ pysegPreSegStep /\ UNCHANGED <<splitVars, vesVars, readVars, trVars, insVars, grVars, cmdParams, cmdArgs, cmdDisk>>
    \/ getMembraneCenterStep /\ UNCHANGED <<splitVars, vesVars, readVars, trVars, insVars, grVars, cmdParams, cmdArgs, cmdDisk>>
    \/ pysegPreSegCenteredStep /\ UNCHANGED <<splitVars, vesVars, readVars, trVars, insVars, grVars, cmdParams, cmdArgs, cmdDisk>>
    \/ createOutputStep /\ UNCHANGED <<splitVars, vesVars, readVars, trVars, insVars, grVars, cmdParams, cmdArgs, cmdDisk>>
    \/ summary /\ UNCHANGED <<splitVars, vesVars, readVars, trVars, insVars, grVars, cmdParams, cmdArgs, cmdDisk>>
    \/ initialize /\ UNCHANGED <<splitVars, vesVars, readVars, trVars, insVars, grVars, cmdParams, cmdArgs, cmdDisk>>

SpecPreSeg == PreSegInit /\ [][PreSegNext]_vars

\* The compilers installed, and what they print.
InstallInit ==
    /\ gccMajor \in 1..MaxCompilerVer
    /\ gppMajor \in 1..MaxCompilerVer
    /\ dumpFull \in BOOLEAN
    /\ installation = [commands |-> <<>>, message |-> ""]
    /\ insPc = "start"
    /\ SplitIdle /\ VesIdle /\ ReadIdle /\ TrIdle /\ PreSegIdle /\ GraphsIdle /\ CmdIdle

SpecInstall == InstallInit /\ [][defineBinaries]_vars

\* The split star files _initialize leaves in self.starFileList, in the
\* directory x/i, and the parameter; no step inserted yet.
GraphsInit ==
    /\ \E n \in 0..MaxStarFiles :
            starFileList = [k \in 1..n |->
                <<"x", "/", "i", "/", "s", "_", Digit(k), ".", "s", "t", "a", "r">>]
    /\ keepOnlyReqFiles \in BOOLEAN
    /\ grSteps = <<>>
    /\ grStatus = <<>>
    /\ grInvocations = <<>>
    /\ grDisk = {}
    /\ SplitIdle /\ VesIdle /\ ReadIdle /\ TrIdle /\ PreSegIdle /\ InstallIdle /\ CmdIdle

GraphsNext ==
    \/ insertAllSteps /\ UNCHANGED <<splitVars, vesVars, readVars, trVars, psVars, insVars, cmdParams, cmdArgs, cmdDisk>>
    \/ StartGraphsStep /\ UNCHANGED <<splitVars, vesVars, readVars, trVars, psVars, insVars, cmdParams, cmdArgs, cmdDisk>>
    \/ pysegGraphs /\ UNCHANGED <<splitVars, vesVars, readVars, trVars, psVars, insVars, cmdParams, cmdArgs, cmdDisk>>
    \/ removeUnusedFilesStep /\ UNCHANGED <<splitVars, vesVars, readVars, trVars, psVars, insVars, cmdParams, cmdArgs, cmdDisk>>

SpecGraphs == GraphsInit /\ [][GraphsNext]_vars

\* The parameters in angstroms, each times 20; -20 is the value -1.
CmdInit ==
    /\ \/ /\ cmdParams \in [protocol : {"preseg", "graphs"},
                            samplingRate : {20 * a : a \in 1..MaxLength},
                            sgMembThk : {20 * a : a \in (0 - 2)..MaxLength},
                            sgMembNeigh : {20 * a : a \in (0 - 2)..MaxLength},
                            maxLen : {20 * a : a \in 1..MaxLength},
                            side : {0}, cont : {0}, templateFile : {<<>>}, template : {<<>>}]
          /\ cmdDisk = <<>>
       \/ /\ cmdParams \in [protocol : {"picking"},
                            samplingRate : {0}, sgMembThk : {0}, sgMembNeigh : {0}, maxLen : {0},
                            side : 0..2, cont : 0..1,
                            templateFile : {<<"h", "/", "s", ".", "x", "m", "l">>},
                            template : UNION {[1..n -> [name : {"mb"}, side : {"1", "2"},
                                                        eu_dst : {"0"}, cont : {"+", "-"}]] :
                                                n \in 1..MaxSlices}]
          /\ cmdDisk = (cmdParams.templateFile :> cmdParams.template)
    /\ cmdArgs = <<>>
    /\ SplitIdle /\ VesIdle /\ ReadIdle /\ TrIdle /\ PreSegIdle /\ InstallIdle /\ GraphsIdle

SpecCommands == CmdInit /\ [][BuildCommand]_vars

(***************************************************************************)
(* Properties of the splitter.                                             *)
(***************************************************************************)
SplitReturned == splitPc = "done"

\* The rows of the k-th returned file.
FileRows(k) == disk[outStarFiles[k]].rows

RECURSIVE ConcatFileRows(_)
ConcatFileRows(k) == IF k = 0 THEN <<>> ELSE ConcatFileRows(k - 1) \o FileRows(k)

CeilDiv(n, g) == (n + g - 1) \div g

\* C1: for a non-empty table and g > 0, the rows of the returned files,
\* concatenated in the order of the returned list, are exactly the rows of the
\* input table in their original order, each exactly once.
C1_RoundTrip ==
    (SplitReturned /\ Len(inStar.rows) >= 1)
        => ConcatFileRows(Len(outStarFiles)) = inStar.rows

\* C2: for n >= 1 rows and g > 0 the splitter produces ceil(n/g) files, and
\* when n % g is not 0 the last file holds n % g rows.
C2_FileCount ==
    (SplitReturned /\ Len(inStar.rows) >= 1)
        => /\ Len(outStarFiles) = CeilDiv(Len(inStar.rows), j)
           /\ Len(inStar.rows) % j # 0
                => Len(FileRows(Len(outStarFiles))) = Len(inStar.rows) % j

\* C3: every returned file but the last holds exactly groupSize rows and the
\* last holds at most groupSize rows, for every g >= 1 (g = 1 included).
C3_GroupSizes ==
    SplitReturned
        => \A k \in 1..Len(outStarFiles) :
              IF k < Len(outStarFiles)
              THEN Len(FileRows(k)) = j
              ELSE Len(FileRows(k)) <= j

\* C4 as stated: on an empty input table the call does not return normally
\* (it ends with an error) and no file is written.
C4_EmptyFails ==
    (Len(inStar.rows) = 0 /\ splitPc \in {"done", "error"})
        => (splitPc = "error" /\ DOMAIN disk = {})

\* C4 as amended: on an empty input table the call returns normally with the
\* empty list of files, and no file is written.
C4_EmptyReturnsNoFiles ==
    (Len(inStar.rows) = 0 /\ splitPc \in {"done", "error"})
        => (splitPc = "done" /\ outStarFiles = <<>> /\ DOMAIN disk = {})

C4_Witness == SplitReturned /\ Len(inStar.rows) = 0 /\ tomoTable = <<>>

\* The name the k-th file is to have: directory, prefix, k as three digits
\* with leading zeros, ".star".
ExpectedFileName(k) ==
    LET zeros == IF k < 10 THEN "00" ELSE IF k < 100 THEN "0" ELSE ""
    IN  OutDir \o "/" \o GRAPHS_OUT \o "_" \o zeros \o Decimal(k) \o ".star"

\* C5: the k-th written file is named outDir/<prefix><k, 3 digits zero
\* padded>.star; the returned paths are pairwise distinct, in counter order,
\* and each of them has been written.
C5_FileNames ==
    /\ \A k \in 1..Len(outStarFiles) : outStarFiles[k] = ExpectedFileName(k)
    /\ \A k, m \in 1..Len(outStarFiles) : k # m => outStarFiles[k] # outStarFiles[m]
    /\ DOMAIN disk = Range(outStarFiles)
    /\ splitPc \in {"loop", "done"} => fileCounter \in {Len(outStarFiles), Len(outStarFiles) + 1}

C5_Witness == SplitReturned /\ Len(outStarFiles) >= 3

\* C6: every written file has exactly the input table's columns and every
\* row in it has a value for every one of those columns.
C6_ColumnsKept ==
    \A path \in DOMAIN disk :
        /\ disk[path].columns = inStar.columns
        /\ \A k \in 1..Len(disk[path].rows) :
              DOMAIN disk[path].rows[k] = Range(inStar.columns)

C6_Witness ==
    /\ SplitReturned
    /\ Len(inStar.columns) = 3
    /\ \E path \in DOMAIN disk : Len(disk[path].rows) >= 2

(***************************************************************************)
(* Properties of the vesicle-id extraction.                                *)
(***************************************************************************)
\* C7: the extracted id is what stands between '_id_' and '_split_' in a
\* split name and what follows '_tid_' otherwise, directory and extension
\* stripped; 'a_tid_3.mrc' gives '3', 'a_id_2_split_4.mrc' gives '2', and ids
\* of several characters are returned whole.
C7_VesicleId ==
    vesicleId.done
        => /\ vesicleId.value = nameParts.id
           /\ subtomoName = <<"a", "_", "t", "i", "d", "_", "3", ".", "m", "r", "c">> => vesicleId.value = <<"3">>
           /\ subtomoName = <<"a", "_", "i", "d", "_", "2", "_", "s", "p", "l", "i", "t", "_", "4", ".", "m", "r", "c">> => vesicleId.value = <<"2">>

C7_Witness ==
    /\ vesicleId.done
    /\ subtomoName = <<"s", "_", "s", "p", "l", "i", "t", "_", "1", "/", "t", "o", "m", "o", "_", "7", "_", "i", "d", "_", "2", "3", "_", "s", "p", "l", "i", "t", "_", "4", ".", "m", "r", "c">>
    /\ vesicleId.value = <<"2", "3">>

\* C8: the group id the sub-tomogram converter sets for a file name is the
\* vesicle id the extraction rule gives for that name.
C8_SameRule ==
    (vesicleId.done /\ subtomoGroup.done)
        => /\ subtomoGroup.value.set
           /\ subtomoGroup.value.id = vesicleId.value

(***************************************************************************)
(* Properties of the star-file reader.                                     *)
(***************************************************************************)
\* C9: reading a table that lacks any subset of the required labels (the
\* tomogram-name column included) never raises: the call returns.
C9_NeverRaises == readPc # "raised"

\* The required labels that were left out of the file, in required order,
\* each between two '*', two blanks between them.
RECURSIVE StarredMissing(_, _)
StarredMissing(required, miss) ==
    IF required = <<>> THEN ""
    ELSE LET rest == StarredMissing(Tail(required), miss)
         IN  IF Head(required) \notin miss THEN rest
             ELSE IF rest = "" THEN "*" \o Head(required) \o "*"
             ELSE "*" \o Head(required) \o "*  " \o rest

\* C10: the returned warning lists exactly the required labels absent from
\* the table (each wrapped in '*', in required-label order) and no present
\* label; it is None when every required label is present.
C10_WarningListsMissing ==
    readPc = "done"
        => IF missing = {}
           THEN warningMsg = None
           ELSE warningMsg = "Columns " \o StarredMissing(RequiredLabels(fileType), missing)
                   \o "\nwere not found in the star file provided.\nThe corresponding "
                   \o "numerical values will be considered as 0."

C10_Witness ==
    /\ readPc = "done"
    /\ fileType = PYSEG_PICKING_STAR
    /\ missing = {COORD_Z, VESICLE}
    /\ warningMsg = "Columns *psVesicle*  *rlnCoordinateZ*\nwere not found in the star file provided.\nThe corresponding numerical values will be considered as 0."
    /\ Len(outputSet) >= 1

(***************************************************************************)
(* Properties of the conversion of a row: position and transform.          *)
(***************************************************************************)
Converted == trPc = "done"

\* The value of a numeric field of the row, 0 when the row has no such column.
FieldOrZero(c) == IF c \in trMissing THEN 0 ELSE trRow[c]

\* The elementary rotations about z and y, as 4x4 matrices.
RotZ4(deg) ==
    <<<<Cos(deg), 0 - Sin(deg), 0, 0>>, <<Sin(deg), Cos(deg), 0, 0>>, <<0, 0, 1, 0>>, <<0, 0, 0, 1>>>>

RotY4(deg) ==
    <<<<Cos(deg), 0, Sin(deg), 0>>, <<0, 1, 0, 0>>, <<0 - Sin(deg), 0, Cos(deg), 0>>, <<0, 0, 0, 1>>>>

\* The ZYZ rotation of the negated angles of the row: about z by -rot, then
\* about y by -tilt, then about z by -psi.
NegatedZYZ ==
    MatMul(RotZ4(0 - FieldOrZero(PSI)),
           MatMul(RotY4(0 - FieldOrZero(TILT)), RotZ4(0 - FieldOrZero(ROT))))

\* A rotation with a translation column (tx, ty, tz).
WithTranslation(R, tx, ty, tz) ==
    <<<<R[1][1], R[1][2], R[1][3], tx>>, <<R[2][1], R[2][2], R[2][3], ty>>,
      <<R[3][1], R[3][2], R[3][3], tz>>, <<0, 0, 0, 1>>>>

\* The rotation of the negated angles with the shifts as given, and with the
\* negated shifts.
RotationWithShifts ==
    WithTranslation(NegatedZYZ, FieldOrZero(SHIFTX), FieldOrZero(SHIFTY), FieldOrZero(SHIFTZ))

RotationWithNegatedShifts ==
    WithTranslation(NegatedZYZ, 0 - FieldOrZero(SHIFTX), 0 - FieldOrZero(SHIFTY),
                    0 - FieldOrZero(SHIFTZ))

IsInverseOf(A, B) == MatMul(A, B) = Identity4 /\ MatMul(B, A) = Identity4

SomeShiftNonZero == \E c \in ShiftLabels : FieldOrZero(c) # 0

\* C11: every missing numeric field counts as 0: a missing coordinate
\* component is 0 (a present one keeps its value), and a row with no angle
\* and no shift column gets the identity transform, whatever the invert flag.
C11_MissingFieldsAreZero ==
    Converted
        => /\ trCoord.x = FieldOrZero(COORD_X)
           /\ trCoord.y = FieldOrZero(COORD_Y)
           /\ trCoord.z = FieldOrZero(COORD_Z)
           /\ (AngleLabels \cup ShiftLabels) \subseteq trMissing => trCoord.M = Identity4
           /\ ~invert => trCoord.M = RotationWithShifts
           /\ invert => IsInverseOf(trCoord.M, RotationWithNegatedShifts)

C11_Witness ==
    /\ Converted
    /\ trMissing = NumericLabels
    /\ invert
    /\ trCoord = [x |-> 0, y |-> 0, z |-> 0, M |-> Identity4]

\* C15 as stated: with invert set, for any angles and shifts the result is
\* the inverse of the matrix made of the ZYZ rotation of the negated angles
\* and the negated shifts, and it is not the inverse of the invert=False
\* result.
C15_InverseOfNegatedShifts ==
    (Converted /\ invert)
        => /\ IsInverseOf(trCoord.M, RotationWithNegatedShifts)
           /\ ~IsInverseOf(trCoord.M, RotationWithShifts)

\* C15 as amended: the same, the result differing from the inverse of the
\* invert=False result whenever some shift is not 0 (with all shifts 0 the
\* two coincide).
C15_InverseOfNegatedShiftsAmended ==
    (Converted /\ invert)
        => /\ IsInverseOf(trCoord.M, RotationWithNegatedShifts)
           /\ SomeShiftNonZero => ~IsInverseOf(trCoord.M, RotationWithShifts)
           /\ ~SomeShiftNonZero => IsInverseOf(trCoord.M, RotationWithShifts)

C15_Witness ==
    /\ Converted
    /\ invert
    /\ trMissing = {}
    /\ trRow[ROT] = 90 /\ trRow[TILT] = 270 /\ trRow[PSI] = 180
    /\ trRow[SHIFTX] = 3 /\ trRow[SHIFTY] = 0 - 2 /\ trRow[SHIFTZ] = 3
    /\ ~IsInverseOf(trCoord.M, RotationWithShifts)

\* C16: with invert not set, the translation column of the result is the
\* shifts as given, the rotation block is the ZYZ rotation of the negated
\* angles, and no inversion is applied.
C16_NoInvertKeepsShifts ==
    (Converted /\ ~invert)
        => /\ trCoord.M[1][4] = FieldOrZero(SHIFTX)
           /\ trCoord.M[2][4] = FieldOrZero(SHIFTY)
           /\ trCoord.M[3][4] = FieldOrZero(SHIFTZ)
           /\ \A r, c \in 1..3 : trCoord.M[r][c] = NegatedZYZ[r][c]
           /\ trCoord.M[4] = <<0, 0, 0, 1>>

C16_Witness ==
    /\ Converted
    /\ ~invert
    /\ trMissing = {}
    /\ trRow[ROT] = 90 /\ trRow[TILT] = 90 /\ trRow[PSI] = 0
    /\ trRow[SHIFTX] = 3 /\ trRow[SHIFTY] = 0 - 2 /\ trRow[SHIFTZ] = 0
    /\ trCoord.M # MatInv(trCoord.M)

(***************************************************************************)
(* Properties of the pre-segmentation protocol.                            *)
(***************************************************************************)
\* The record is in both output sets and in the final star file / in none.
InAllOutputs(r) ==
    /\ \E i \in 1..Len(psOut.tomoMasks) : psOut.tomoMasks[i].fileName = r.vesicleSeg
    /\ \E i \in 1..Len(psOut.subTomos) : psOut.subTomos[i].fileName = r.vesicle
    /\ \E i \in 1..Len(psOut.finalRows) : psOut.finalRows[i] = r

InNoOutput(r) ==
    /\ \A i \in 1..Len(psOut.tomoMasks) : psOut.tomoMasks[i].fileName # r.vesicleSeg
    /\ \A i \in 1..Len(psOut.subTomos) : psOut.subTomos[i].fileName # r.vesicle
    /\ \A i \in 1..Len(psOut.finalRows) : psOut.finalRows[i] # r

SameExtentAsTomogram(r) ==
    r.dims[1] = TomoDims[1] /\ r.dims[2] = TomoDims[2] /\ r.dims[3] = TomoDims[3]

\* Below a threshold that is set (a threshold of -1 is not).
BelowMinimum(r) ==
    \/ psMinXY # 0 - 1 /\ (r.dims[1] < psMinXY \/ r.dims[2] < psMinXY)
    \/ psMinDepth # 0 - 1 /\ r.dims[3] < psMinDepth

RecordsWhere(P(_)) == {k \in 1..Len(psRecords) : P(psRecords[k])}

\* C12: once the outputs are created, a record with the extent of its
\* tomogram is in neither output set nor in the final star file and is
\* counted once as removed; a record that differs from the tomogram in some
\* dimension is not removed by this rule: with the size filtering off it is
\* kept, and the removed count is then the number of whole-tomogram records.
C12_WholeTomogramExcluded ==
    psOut.defined
        => /\ \A k \in 1..Len(psRecords) :
                /\ SameExtentAsTomogram(psRecords[k]) => InNoOutput(psRecords[k])
                /\ (~SameExtentAsTomogram(psRecords[k]) /\ psMinXY <= 0 /\ psMinDepth <= 0)
                        => InAllOutputs(psRecords[k])
           /\ psOut.removed = Len(psRecords) - Len(psOut.finalRows)
           /\ (psMinXY <= 0 /\ psMinDepth <= 0)
                => psOut.removed = Cardinality(RecordsWhere(SameExtentAsTomogram))

C12_Witness ==
    /\ psOut.defined
    /\ psMinXY = 0 - 1 /\ psMinDepth = 0 - 1
    /\ Len(psRecords) = 2
    /\ psRecords[1].dims = <<4, 4, 4>> /\ psRecords[2].dims = <<4, 4, 2>>
    /\ psOut.removed = 1
    /\ psOut.finalRows = <<psRecords[2]>>

\* C13: a record that is not the whole tomogram is excluded from the outputs
\* exactly when its width or height is below minXY or its depth is below
\* minDepth, a threshold of -1 switching its comparison off; the excluded
\* records are the ones counted as removed.
C13_SizeFilter ==
    psOut.defined
        => /\ \A k \in 1..Len(psRecords) :
                ~SameExtentAsTomogram(psRecords[k])
                    => /\ BelowMinimum(psRecords[k]) => InNoOutput(psRecords[k])
                       /\ ~BelowMinimum(psRecords[k]) => InAllOutputs(psRecords[k])
           /\ psOut.removed =
                Cardinality(RecordsWhere(LAMBDA r : SameExtentAsTomogram(r) \/ BelowMinimum(r)))

C13_Witness ==
    /\ psOut.defined
    /\ psMinXY = 3 /\ psMinDepth = 0 - 1
    /\ Len(psRecords) = 2
    /\ psRecords[1].dims = <<1, 4, 4>> /\ psRecords[2].dims = <<4, 4, 2>>
    /\ psOut.removed = 1
    /\ psOut.finalRows = <<psRecords[2]>>

\* C14: the two files of a record are on disk together or not at all; once
\* the outputs are created both files of every discarded record are gone
\* and both files of every retained record are still there.
C14_BothFilesDeleted ==
    /\ \A k \in 1..Len(psRecords) :
            psRecords[k].vesicle \in psDisk <=> psRecords[k].vesicleSeg \in psDisk
    /\ psOut.defined
        => \A k \in 1..Len(psRecords) :
                /\ InNoOutput(psRecords[k])
                    => psRecords[k].vesicle \notin psDisk /\ psRecords[k].vesicleSeg \notin psDisk
                /\ InAllOutputs(psRecords[k])
                    => psRecords[k].vesicle \in psDisk /\ psRecords[k].vesicleSeg \in psDisk
                /\ InNoOutput(psRecords[k]) \/ InAllOutputs(psRecords[k])

C14_Witness ==
    /\ psOut.defined
    /\ Len(psRecords) = 2
    /\ InNoOutput(psRecords[1]) /\ InAllOutputs(psRecords[2])
    /\ psDisk \cap {psRecords[1].vesicle, psRecords[1].vesicleSeg} = {}
    /\ {psRecords[2].vesicle, psRecords[2].vesicleSeg} \subseteq psDisk

\* C19: the steps finish in the order input conversion, first external run,
\* centre computation, second external run, output creation; the outputs
\* are defined only after the second external run has finished; and the
\* step that reads the centred star file can start only when it is written.
C19_StepOrder ==
    /\ \A i \in 1..Len(psLog) :
            psLog[i] = <<"convertInputStep", "pysegPreSegStep", "getMembraneCenterStep",
                         "pysegPreSegCenteredStep", "createOutputStep">>[i]
    /\ psOut.defined => \E i \in 1..Len(psLog) : psLog[i] = "pysegPreSegCenteredStep"
    /\ ENABLED pysegPreSegCenteredStep => getVesiclesCenteredStarFile \in psDisk

C19_Witness ==
    /\ psState = "finished"
    /\ Len(psLog) = 5
    /\ psOut.defined
    /\ Len(psRecords) = 2

(***************************************************************************)
(* Properties of the compiler check.                                       *)
(***************************************************************************)
FetchOrBuildPrograms == {"wget", "tar", "conda", "pip", "./configure", "cmake", "make"}

ProgramsOf(recipe) == UNION {Range(recipe.commands[i]) : i \in 1..Len(recipe.commands)}

\* C17: the recipe is the full installation exactly when the major versions
\* of gcc and g++ are equal and between 5 and 12; otherwise it runs no fetch
\* or build program and its message gives both detected versions and the
\* range [5, 12].
C17_CompilerCheck ==
    insPc = "done"
        => IF gccMajor = gppMajor /\ gccMajor >= 5 /\ gccMajor <= 12
           THEN /\ installation.message = ""
                /\ Len(installation.commands) = 5
                /\ {"wget", "cmake", "make"} \subseteq ProgramsOf(installation)
           ELSE /\ ProgramsOf(installation) \cap FetchOrBuildPrograms = {}
                /\ installation.message =
                        "gcc-" \o Decimal(gccMajor) \o " detected. g++-" \o Decimal(gppMajor)
                            \o " detected. Required conditions: [1] Both compilers version must"
                            \o " be the same. [2] Compiler version must be in range [5, 12]."

C17_Witness ==
    /\ insPc = "done"
    /\ gccMajor = 12 /\ gppMajor = 11 /\ dumpFull
    /\ installation.commands = <<<<"rm", "echo">>>>
    /\ installation.message # ""

(***************************************************************************)
(* Properties of the graphs protocol.                                      *)
(***************************************************************************)
GraphStepIds == {i \in 1..Len(grSteps) : grSteps[i].func = "pysegGraphs"}

CleanupStepIds == {i \in 1..Len(grSteps) : grSteps[i].func = "removeUnusedFilesStep"}

\* C18: no step calls the external program more than once, a graph step
\* whose call failed stays failed and has not called it again, and its star
\* file is not in the output star directory.
C18_FailureIsFatal ==
    \A i \in 1..Len(grSteps) :
        /\ grInvocations[i] <= 1
        /\ grStatus[i] = "failed"
            => /\ grInvocations[i] = 1
               /\ (<<"x", "/", "o", "/">> \o Basename(grSteps[i].starFile)) \notin grDisk

C18_Witness ==
    /\ Len(grSteps) = 3
    /\ grStatus[1] = "finished" /\ grStatus[2] = "failed"
    /\ (<<"x", "/", "o", "/">> \o Basename(grSteps[1].starFile)) \in grDisk
    /\ (<<"x", "/", "o", "/">> \o Basename(grSteps[2].starFile)) \notin grDisk

\* C20: once the steps are inserted there is one graph step per split star
\* file, in order and without prerequisites, and one cleanup step whose
\* prerequisites are all the graph steps; the cleanup step is running or
\* finished only when every graph step is finished.
C20_CleanupAfterGraphs ==
    grSteps # <<>>
        => /\ Len(grSteps) = Len(starFileList) + 1
           /\ \A k \in 1..Len(starFileList) :
                /\ grSteps[k].func = "pysegGraphs"
                /\ grSteps[k].starFile = starFileList[k]
                /\ grSteps[k].prerequisites = {}
           /\ CleanupStepIds = {Len(grSteps)}
           /\ grSteps[Len(grSteps)].prerequisites = GraphStepIds
           /\ grStatus[Len(grSteps)] \in {"running", "finished"}
                => \A k \in GraphStepIds : grStatus[k] = "finished"

\* Two graph steps run at the same time while a third is already finished,
\* out of order.
C20_Witness ==
    /\ Len(starFileList) = 3
    /\ Len(grSteps) = 4
    /\ grStatus[1] = "running" /\ grStatus[3] = "finished" /\ grStatus[2] = "running"
    /\ grStatus[4] = "new"

\* C29: with rot = tilt = psi = 0 (or missing) and any shifts, the matrix is
\* the identity rotation with the shifts as translation, whether invert is
\* set or not.
C29_ZeroAnglesSameMatrix ==
    (Converted /\ \A c \in AngleLabels : FieldOrZero(c) = 0)
        => trCoord.M = WithTranslation(Identity4, FieldOrZero(SHIFTX), FieldOrZero(SHIFTY),
                                       FieldOrZero(SHIFTZ))

C29_Witness ==
    /\ Converted
    /\ invert
    /\ trMissing = {}
    /\ trRow[ROT] = 0 /\ trRow[TILT] = 0 /\ trRow[PSI] = 0
    /\ trRow[SHIFTX] = 3 /\ trRow[SHIFTY] = 0 - 2 /\ trRow[SHIFTZ] = 3
    /\ trCoord.M[1][4] = 3 /\ trCoord.M[2][4] = 0 - 2

\* C25: once the outputs are created there are as many tomo masks as
\* sub-tomograms as rows of the final star file, namely the rows read less
\* the removed ones, and the i-th of each describes the same vesicle.
C25_CountConservation ==
    psOut.defined
        => /\ Len(psOut.tomoMasks) = Len(psOut.subTomos)
           /\ Len(psOut.subTomos) = Len(psOut.finalRows)
           /\ Len(psOut.finalRows) = Len(psRecords) - psOut.removed
           /\ \A i \in 1..Len(psOut.finalRows) :
                /\ psOut.tomoMasks[i].fileName = psOut.finalRows[i].vesicleSeg
                /\ psOut.tomoMasks[i].volName = psOut.finalRows[i].vesicle
                /\ psOut.subTomos[i].fileName = psOut.finalRows[i].vesicle
                /\ psOut.subTomos[i].volName = psOut.finalRows[i].tomogram
                /\ psOut.subTomos[i].classId = psOut.tomoMasks[i].classId

C25_Witness ==
    /\ psOut.defined
    /\ Len(psRecords) = 2
    /\ psOut.removed = 1
    /\ Len(psOut.tomoMasks) = 1 /\ Len(psOut.subTomos) = 1
    /\ psOut.finalRows = <<psRecords[1]>>

\* C30: a summary asked for after an output creation that removed at least
\* one segmentation returns the message with the number removed; when none
\* was removed the attribute is not set and no such message is returned.
C30_SummaryReportsRemoved ==
    psSummary.called
        => IF psSummary.removed > 0
           THEN /\ ~psSummary.none
                /\ psSummary.value = <<"Number of segmentations removed by size filtering was "
                                          \o Decimal(psSummary.removed)>>
           ELSE psSummary.value = <<>>

(***************************************************************************)
(* Properties of the command lines.                                        *)
(***************************************************************************)
\* C22: the voxel or pixel size, the membrane neighbourhood and the maximum
\* distance are passed divided by 10 and the membrane thickness halved and
\* divided by 10 (10 times the argument is the parameter, or half of it);
\* in pre-segmentation a neighbourhood of -1 and a thickness whose half is
\* -1 are passed as -1.
C22_UnitConversion ==
    cmdArgs # <<>>
        => IF cmdParams.protocol = "preseg"
           THEN /\ 10 * cmdArgs.sgVoxelSize = cmdParams.samplingRate
                /\ IF cmdParams.sgMembNeigh = 0 - 20
                   THEN cmdArgs.sgMembNeigh = 0 - 20
                   ELSE 10 * cmdArgs.sgMembNeigh = cmdParams.sgMembNeigh
                /\ IF cmdParams.sgMembThk = 0 - 40
                   THEN cmdArgs.sgMembThk = 0 - 20
                   ELSE 20 * cmdArgs.sgMembThk = cmdParams.sgMembThk
           ELSE cmdParams.protocol = "graphs"
                    => /\ 10 * cmdArgs.pixelSize = cmdParams.samplingRate
                       /\ 10 * cmdArgs.maxLen = cmdParams.maxLen

C22_Witness ==
    /\ cmdArgs # <<>>
    /\ cmdParams.protocol = "preseg"
    /\ cmdParams.sgMembThk = 0 - 40 /\ cmdParams.sgMembNeigh = 0 - 20
    /\ cmdParams.samplingRate = 60
    /\ cmdArgs.sgMembThk = 0 - 20 /\ cmdArgs.sgMembNeigh = 0 - 20 /\ cmdArgs.sgVoxelSize = 6

(***************************************************************************)
(* Properties of the coordinates read from a picking star file.            *)
(***************************************************************************)
PickingRead == readPc = "done" /\ fileType = PYSEG_PICKING_STAR

\* The pairs (tomogram position, row position) with the same basename.
BasenameMatches ==
    {<<t, k>> \in (1..Len(tomoSet)) \X (1..Len(starTable.rows)) :
        Basename(starTable.rows[k][TOMO_NAME]) = Basename(tomoSet[t])}

C27_AtMostOnePerRow == PickingRead => Len(outputSet) <= Len(starTable.rows)

\* The files of the output star directory.
OutStarFiles == {f \in grDisk : OccursAt(f, <<"x", "/", "o", "/">>, 0)}

\* C26: two different graph steps have different star files with different
\* basenames, hence different destinations; every finished graph step has
\* its result in the output star directory, which holds one file per
\* finished graph step and nothing of a step that has not finished.
C26_NoFileCollision ==
    /\ \A a, b \in GraphStepIds :
            a # b => /\ grSteps[a].starFile # grSteps[b].starFile
                     /\ Basename(grSteps[a].starFile) # Basename(grSteps[b].starFile)
    /\ \A a \in GraphStepIds :
            grStatus[a] = "finished"
                <=> (<<"x", "/", "o", "/">> \o Basename(grSteps[a].starFile)) \in grDisk
    /\ Cardinality(OutStarFiles) = Cardinality({a \in GraphStepIds : grStatus[a] = "finished"})

C26_Witness ==
    /\ Len(grSteps) = 4
    /\ grStatus[1] = "finished" /\ grStatus[2] = "running" /\ grStatus[3] = "finished"
    /\ Cardinality(OutStarFiles) = 2

(***************************************************************************)
(* Properties of the graphs protocol run on a pre-segmentation.            *)
(***************************************************************************)
\* C24: whichever input the graphs protocol takes, every row of the star
\* file it splits is a record the pre-segmentation kept, and the
\* segmentation file the row names still exists.
C24_PrunedNeverReachGraphs ==
    grInput.called
        => \A k \in 1..Len(grInput.rows) :
                /\ InAllOutputs(grInput.rows[k])
                /\ grInput.rows[k].vesicleSeg \in psDisk

C23_SlicesDescriptor ==
    (cmdArgs # <<>> /\ cmdParams.protocol = "picking")
        => LET copy == <<"x", "/", "s", ".", "x", "m", "l">>
           IN  /\ cmdArgs.slicesFile = copy
               /\ copy # cmdParams.templateFile
               /\ DOMAIN cmdDisk = {copy, cmdParams.templateFile}
               /\ cmdDisk[cmdParams.templateFile] = cmdParams.template
               /\ Len(cmdDisk[copy]) = Len(cmdParams.template)
               /\ cmdDisk[copy][1].side = Decimal(cmdParams.side + 1)
               /\ cmdDisk[copy][1].side \in {"1", "2", "3"}
               /\ cmdDisk[copy][1].cont = IF cmdParams.cont = 0 THEN "+" ELSE "-"
               /\ cmdDisk[copy][1].name = cmdParams.template[1].name
               /\ cmdDisk[copy][1].eu_dst = cmdParams.template[1].eu_dst
               /\ \A i \in 2..Len(cmdParams.template) : cmdDisk[copy][i] = cmdParams.template[i]

C23_Witness ==
    /\ cmdArgs # <<>>
    /\ cmdParams.protocol = "picking"
    /\ cmdParams.side = 2 /\ cmdParams.cont = 1
    /\ Len(cmdParams.template) = 2
    /\ cmdParams.template[1].side = "1" /\ cmdParams.template[1].cont = "+"
    /\ cmdParams.template[2].side = "1" /\ cmdParams.template[2].cont = "+"
    /\ cmdDisk[cmdArgs.slicesFile][1].side = "3" /\ cmdDisk[cmdArgs.slicesFile][1].cont = "-"
    /\ cmdDisk[cmdArgs.slicesFile][2] = cmdParams.template[2]
    /\ cmdDisk[cmdParams.templateFile] = cmdParams.template

====
